---- MODULE Spec2Model ----
(***************************************************************************)
(* Fee Normalization & Calculation Engine of the broker fee comparison     *)
(* client (src/src/utils/calc.ts).                                         *)
(*                                                                         *)
(* JS numbers are IEEE-754 doubles.  A number that comes from JSON or from *)
(* parseFloat is the double nearest to a decimal literal; such a number is *)
(* carried in the model as that decimal, in thousandths ("mills").  The    *)
(* arithmetic of the evaluator is done on the doubles themselves: a double *)
(* is [m, e] with value m * 2^e and a 53 bit mantissa m, kept as a natural *)
(* number in limbs of 15 bits (TLC's integers have 32 bits).               *)
(***************************************************************************)
EXTENDS Integers, Sequences, FiniteSets, TLC

----------------------------------------------------------------------------
(* Natural numbers of any size: little-endian limbs in base 2^15, no high   *)
(* zero limb; <<>> is zero.                                                 *)

LimbBits == 15
LimbBase == 32768

RECURSIVE Pow2(_)
Pow2(k) == IF k = 0 THEN 1 ELSE 2 * Pow2(k - 1)

RECURSIVE BigNorm(_)
BigNorm(a) ==
    IF a = <<>> THEN <<>>
    ELSE IF a[Len(a)] = 0 THEN BigNorm(SubSeq(a, 1, Len(a) - 1))
    ELSE a

RECURSIVE BigFromInt(_)
BigFromInt(n) ==
    IF n = 0 THEN <<>> ELSE <<n % LimbBase>> \o BigFromInt(n \div LimbBase)

RECURSIVE BigToInt(_)
BigToInt(a) ==
    IF a = <<>> THEN 0 ELSE a[1] + LimbBase * BigToInt(Tail(a))

Limb(a, i) == IF i <= Len(a) THEN a[i] ELSE 0

RECURSIVE BigAddC(_, _, _, _)
BigAddC(a, b, i, carry) ==
    IF i > Len(a) /\ i > Len(b)
    THEN (IF carry = 0 THEN <<>> ELSE <<carry>>)
    ELSE <<(Limb(a, i) + Limb(b, i) + carry) % LimbBase>>
         \o BigAddC(a, b, i + 1, (Limb(a, i) + Limb(b, i) + carry) \div LimbBase)

BigAdd(a, b) == BigAddC(a, b, 1, 0)

\* a - b for a >= b
RECURSIVE BigSubC(_, _, _, _)
BigSubC(a, b, i, borrow) ==
    IF i > Len(a) THEN <<>>
    ELSE IF a[i] - Limb(b, i) - borrow < 0
    THEN <<a[i] - Limb(b, i) - borrow + LimbBase>> \o BigSubC(a, b, i + 1, 1)
    ELSE <<a[i] - Limb(b, i) - borrow>> \o BigSubC(a, b, i + 1, 0)

BigSub(a, b) == BigNorm(BigSubC(a, b, 1, 0))

\* a * k for 0 <= k < 2^15
RECURSIVE BigMulSmallC(_, _, _, _)
BigMulSmallC(a, k, i, carry) ==
    IF i > Len(a)
    THEN (IF carry = 0 THEN <<>> ELSE <<carry>>)
    ELSE <<(a[i] * k + carry) % LimbBase>>
         \o BigMulSmallC(a, k, i + 1, (a[i] * k + carry) \div LimbBase)

BigMulSmall(a, k) == IF k = 0 THEN <<>> ELSE BigMulSmallC(a, k, 1, 0)

ZeroLimbs(n) == [i \in 1..n |-> 0]

RECURSIVE BigMulC(_, _, _)
BigMulC(a, b, i) ==
    IF i > Len(b) THEN <<>>
    ELSE BigAdd(IF b[i] = 0 THEN <<>> ELSE ZeroLimbs(i - 1) \o BigMulSmall(a, b[i]),
                BigMulC(a, b, i + 1))

BigMul(a, b) == IF a = <<>> \/ b = <<>> THEN <<>> ELSE BigMulC(a, b, 1)

\* The limbs of the quotient of a by d for 0 < d < 2^15, from limb i down,
\* with the remainder rem carried in from above
RECURSIVE BigQuotC(_, _, _, _)
BigQuotC(a, d, i, rem) ==
    IF i = 0 THEN <<>>
    ELSE BigQuotC(a, d, i - 1, (rem * LimbBase + a[i]) % d)
         \o <<(rem * LimbBase + a[i]) \div d>>

BigQuot(a, d) == BigNorm(BigQuotC(a, d, Len(a), 0))

\* The remainder of a by d for 0 < d < 2^15, likewise
RECURSIVE BigRemC(_, _, _, _)
BigRemC(a, d, i, rem) ==
    IF i = 0 THEN rem ELSE BigRemC(a, d, i - 1, (rem * LimbBase + a[i]) % d)

BigRem(a, d) == BigRemC(a, d, Len(a), 0)

\* -1, 0, 1 as a < b, a = b, a > b
RECURSIVE BigCmpC(_, _, _)
BigCmpC(a, b, i) ==
    IF i = 0 THEN 0
    ELSE IF a[i] < b[i] THEN -1
    ELSE IF a[i] > b[i] THEN 1
    ELSE BigCmpC(a, b, i - 1)

BigCmp(a, b) ==
    IF Len(a) < Len(b) THEN -1
    ELSE IF Len(a) > Len(b) THEN 1
    ELSE BigCmpC(a, b, Len(a))

BigShl(a, s) ==
    IF a = <<>> THEN <<>>
    ELSE ZeroLimbs(s \div LimbBits) \o BigMulSmall(a, Pow2(s % LimbBits))

BigShr(a, s) ==
    IF s \div LimbBits >= Len(a) THEN <<>>
    ELSE BigQuot(SubSeq(a, s \div LimbBits + 1, Len(a)), Pow2(s % LimbBits))

RECURSIVE SmallBitLen(_)
SmallBitLen(n) == IF n = 0 THEN 0 ELSE 1 + SmallBitLen(n \div 2)

BigBitLen(a) ==
    IF a = <<>> THEN 0 ELSE LimbBits * (Len(a) - 1) + SmallBitLen(a[Len(a)])

BigIsOdd(a) == a # <<>> /\ a[1] % 2 = 1

----------------------------------------------------------------------------
(* IEEE-754 binary64, non-negative and finite: [m, e] is m * 2^e with       *)
(* 2^52 <= m < 2^53, or m = 0.  Every operation rounds to nearest, ties to  *)
(* even.                                                                    *)

MantBits == 53

DZero == [m |-> <<>>, e |-> 0]

\* q * 2^e with q of 53 bits, or of 54 after a carry out of the rounding
DRenorm(q, e) ==
    IF BigBitLen(q) > MantBits THEN [m |-> BigShr(q, 1), e |-> e + 1]
    ELSE [m |-> q, e |-> e]

\* Whether the quotient q goes up: c compares what was cut off with a half
DRoundsUp(q, c, sticky) == c > 0 \/ (c = 0 /\ (sticky \/ BigIsOdd(q)))

\* M with its low d bits cut off and rounded, M = q * 2^d + what is cut off
DCut(M, q, d, sticky) ==
    IF DRoundsUp(q, BigCmp(BigSub(M, BigShl(q, d)), BigShl(<<1>>, d - 1)), sticky)
    THEN BigAdd(q, <<1>>) ELSE q

\* DRound for M of L bits
DRoundBits(M, L, e, sticky) ==
    IF L <= MantBits
    THEN [m |-> BigShl(M, MantBits - L), e |-> e - (MantBits - L)]
    ELSE DRenorm(DCut(M, BigShr(M, L - MantBits), L - MantBits, sticky),
                 e + (L - MantBits))

\* The double nearest to (M + f) * 2^e, where 0 < f < 1 if sticky and f = 0
\* if not; with sticky, M has at least 55 bits.
DRound(M, e, sticky) ==
    IF M = <<>> THEN DZero ELSE DRoundBits(M, BigBitLen(M), e, sticky)

\* The double of an integer
DFromInt(n) == DRound(BigFromInt(n), 0, FALSE)

\* The double nearest to M * 2^e / k for an integer 0 < k < 2^15, where M
\* has bits enough for the quotient to have 55
DQuot(M, e, k) == DRound(BigQuot(M, k), e, BigRem(M, k) # 0)

\* The double a decimal literal of n thousandths denotes
DFromMills(n) == DQuot(BigShl(BigFromInt(n), 66), -66, 1000)

\* The mantissa of a at the exponent e <= a.e
DAt(a, e) == BigShl(a.m, a.e - e)

DMinExp(a, b) == IF a.e < b.e THEN a.e ELSE b.e

DAdd(a, b) ==
    IF a.m = <<>> THEN b
    ELSE IF b.m = <<>> THEN a
    ELSE DRound(BigAdd(DAt(a, DMinExp(a, b)), DAt(b, DMinExp(a, b))),
                DMinExp(a, b), FALSE)

DMul(a, b) == DRound(BigMul(a.m, b.m), a.e + b.e, FALSE)

\* a / k for an integer 0 < k < 2^15
DDivSmall(a, k) == DQuot(BigShl(a.m, LimbBits), a.e - LimbBits, k)

\* -1, 0, 1 as a < b, a = b, a > b
DCmp(a, b) ==
    IF a.m = <<>> /\ b.m = <<>> THEN 0
    ELSE IF a.m = <<>> THEN -1
    ELSE IF b.m = <<>> THEN 1
    ELSE BigCmp(DAt(a, DMinExp(a, b)), DAt(b, DMinExp(a, b)))

DMax(a, b) == IF DCmp(a, b) < 0 THEN b ELSE a
DMin(a, b) == IF DCmp(a, b) > 0 THEN b ELSE a

\* Math.round: floor(x + 1/2), exactly, as an integer
MathRound(x) ==
    IF x.m = <<>> THEN 0
    ELSE IF x.e >= 0 THEN BigToInt(BigShl(x.m, x.e))
    ELSE BigToInt(BigShr(BigAdd(x.m, BigShl(<<1>>, (-x.e) - 1)), -x.e))

\* Number.EPSILON = 2^-52
NumberEPSILON == [m |-> BigShl(<<1>>, 52), e |-> -104]

----------------------------------------------------------------------------
(* JS values, tagged by type.  A number is carried as the decimal literal   *)
(* it was read from, in thousandths; an object is a function from its own   *)
(* field names to values, and a field it lacks reads as undefined.          *)

Undefined == [t |-> "undefined"]
Null      == [t |-> "null"]
Bool(b)   == [t |-> "boolean", v |-> b]
Num(n)    == [t |-> "number", v |-> n]
Str(s)    == [t |-> "string", v |-> s]
Arr(a)    == [t |-> "array", v |-> a]
Obj(f)    == [t |-> "object", v |-> f]

\* What a call that throws (a TypeError) leaves instead of a value
Thrown    == [t |-> "throw"]

\* A field left out of an object literal
Absent    == [t |-> "absent"]

\* The object with the fields of the <<name, value>> pairs whose value is
\* not Absent
ObjOf(pairs) ==
    Obj([k \in {pairs[i][1] : i \in {j \in 1..Len(pairs) : pairs[j][2] # Absent}} |->
           pairs[CHOOSE i \in 1..Len(pairs) :
                    pairs[i][1] = k /\ pairs[i][2] # Absent][2]])

IsNullish(x) == x.t \in {"undefined", "null"}

\* o.f, for o neither null nor undefined
Get(o, f) ==
    IF o.t = "object" /\ f \in DOMAIN o.v THEN o.v[f] ELSE Undefined

\* o?.f
OptGet(o, f) == IF IsNullish(o) THEN Undefined ELSE Get(o, f)

\* x ?? y
Coalesce(x, y) == IF IsNullish(x) THEN y ELSE x

\* ToBoolean(x)
Truthy(x) ==
    CASE x.t = "undefined" -> FALSE
      [] x.t = "null"      -> FALSE
      [] x.t = "boolean"   -> x.v
      [] x.t = "number"    -> x.v # 0
      [] x.t = "string"    -> x.v # <<>>
      [] OTHER             -> TRUE

\* x.length of a string or an array, undefined of anything else
LengthOf(x) ==
    IF x.t \in {"string", "array"} THEN Num(1000 * Len(x.v)) ELSE Undefined

\* The double a number value holds
ToD(x) == DFromMills(x.v)

\* The least of a non-empty set of integers
MinOf(S) == CHOOSE i \in S : \A j \in S : i <= j

----------------------------------------------------------------------------
(* The fee evaluator.                                                       *)

\* roundToCents: Math.round((value + Number.EPSILON) * 100) / 100.  The
\* quotient of the integer c by 100 is the double the literal c/100 denotes.
roundToCents(value) ==
    Num(10 * MathRound(DMul(DAdd(value, NumberEPSILON), DFromInt(100))))

\* base + (percent / 100) * amount, with structured.base ?? 0 and
\* structured.percent ?? 0
LinearRaw(structured, amount) ==
    DAdd(ToD(Coalesce(Get(structured, "base"), Num(0))),
         DMul(DDivSmall(ToD(Coalesce(Get(structured, "percent"), Num(0))), 100),
              ToD(amount)))

\* if (min !== null && min !== undefined) total = Math.max(total, min)
ClampMin(total, min) ==
    IF ~IsNullish(min) THEN DMax(total, ToD(min)) ELSE total

\* ClampMax with the test of max left out: the total is never lowered
ClampMax_Never(total, max) == total

\* if (max !== null && max !== undefined) total = Math.min(total, max)
ClampMax(total, max) ==
    IF ~IsNullish(max) THEN DMin(total, ToD(max)) ELSE total

\* LinearTotal with the two clamps in the other order: max first, then min
LinearTotal_MaxFirst(structured, amount) ==
    ClampMin(ClampMax(LinearRaw(structured, amount), Get(structured, "max")),
             Get(structured, "min"))

\* The linear branch: the raw total, Math.max with min, then Math.min with
\* max
LinearTotal(structured, amount) ==
    ClampMax(ClampMin(LinearRaw(structured, amount), Get(structured, "min")),
             Get(structured, "max"))

\* TierMatches with the upper bound exclusive: amount < t.to
TierMatches_ExclusiveTo(t, amount) ==
    /\ \/ IsNullish(Get(t, "from"))
       \/ DCmp(ToD(amount), ToD(Get(t, "from"))) >= 0
    /\ \/ IsNullish(Get(t, "to"))
       \/ DCmp(ToD(amount), ToD(Get(t, "to"))) < 0

\* The predicate of fee.tiers.find
TierMatches(t, amount) ==
    /\ \/ IsNullish(Get(t, "from"))
       \/ DCmp(ToD(amount), ToD(Get(t, "from"))) >= 0
    /\ \/ IsNullish(Get(t, "to"))
       \/ DCmp(ToD(amount), ToD(Get(t, "to"))) <= 0

\* The first of the elements of tiers at the positions hits, or undefined
FirstAt(tiers, hits) ==
    IF hits = {} THEN Undefined ELSE tiers[MinOf(hits)]

\* FindTier passing over the tiers whose fee is null or undefined: the first
\* element that matches and has a fee
FindTier_SkipsNullFee(tiers, amount) ==
    FirstAt(tiers, {i \in 1..Len(tiers) :
                       /\ TierMatches(tiers[i], amount)
                       /\ ~IsNullish(Get(tiers[i], "fee"))})

\* Array.prototype.find: the first element that matches, or undefined
FindTier(tiers, amount) ==
    FirstAt(tiers, {i \in 1..Len(tiers) : TierMatches(tiers[i], amount)})

\* if (tier && tier.fee !== null && tier.fee !== undefined)
\*   return roundToCents(tier.fee)
TierFee(tier) ==
    IF Truthy(tier) /\ ~IsNullish(Get(tier, "fee"))
    THEN roundToCents(ToD(Get(tier, "fee")))
    ELSE Null

TierBranch(fee, amount) ==
    IF ~IsNullish(Get(fee, "tiers")) /\ Truthy(LengthOf(Get(fee, "tiers")))
    THEN TierFee(FindTier(Get(fee, "tiers").v, amount))
    ELSE Null

\* structured && (structured.base !== null || structured.percent !== null)
TakesLinearBranch(structured) ==
    /\ Truthy(structured)
    /\ (Get(structured, "base") # Null \/ Get(structured, "percent") # Null)

calcLinearOrTieredFee(fee, amount) ==
    IF ~Truthy(fee) THEN Null
    ELSE IF TakesLinearBranch(Get(fee, "formula_structured"))
    THEN roundToCents(LinearTotal(Get(fee, "formula_structured"), amount))
    ELSE TierBranch(fee, amount)

----------------------------------------------------------------------------
(* Strings are sequences of characters; a character is a one-character      *)
(* string, and a character outside ASCII goes by its name: "EURO" is the    *)
(* euro sign, "POUND" the pound sign, "BULLET" the bullet U+2022, "NDASH"   *)
(* the dash U+2013.                                                         *)

UpperCase == <<"A", "B", "C", "D", "E", "F", "G", "H", "I", "J", "K", "L", "M",
               "N", "O", "P", "Q", "R", "S", "T", "U", "V", "W", "X", "Y", "Z">>
LowerCase == <<"a", "b", "c", "d", "e", "f", "g", "h", "i", "j", "k", "l", "m",
               "n", "o", "p", "q", "r", "s", "t", "u", "v", "w", "x", "y", "z">>
Digits    == <<"0", "1", "2", "3", "4", "5", "6", "7", "8", "9">>

LowerChar(c) ==
    IF \E i \in 1..26 : UpperCase[i] = c
    THEN LowerCase[CHOOSE i \in 1..26 : UpperCase[i] = c]
    ELSE c

\* String.prototype.toLowerCase
toLowerCase(s) == [i \in 1..Len(s) |-> LowerChar(s[i])]

\* Whether sub occurs in s at position i
OccursAt(s, sub, i) ==
    /\ i + Len(sub) - 1 <= Len(s)
    /\ \A k \in 1..Len(sub) : s[i + k - 1] = sub[k]

\* String.prototype.includes
includes(s, sub) == \E i \in 1..(Len(s) + 1) : OccursAt(s, sub, i)

IsDigit(c) == \E i \in 1..10 : Digits[i] = c
DigitValue(c) == (CHOOSE i \in 1..10 : Digits[i] = c) - 1

\* \s of a regular expression
IsSpace(c) == c \in {" ", "\t", "\n"}

\* String.prototype.trim
RECURSIVE trim(_)
trim(s) ==
    IF s = <<>> THEN s
    ELSE IF IsSpace(s[1]) THEN trim(Tail(s))
    ELSE IF IsSpace(s[Len(s)]) THEN trim(SubSeq(s, 1, Len(s) - 1))
    ELSE s

\* The position after the longest run of digits, of spaces, from i on
RECURSIVE DigitsEnd(_, _)
DigitsEnd(s, i) ==
    IF i <= Len(s) /\ IsDigit(s[i]) THEN DigitsEnd(s, i + 1) ELSE i

RECURSIVE SpacesEnd(_, _)
SpacesEnd(s, i) ==
    IF i <= Len(s) /\ IsSpace(s[i]) THEN SpacesEnd(s, i + 1) ELSE i

\* The end of (?:\.\d+)? tried at j, greedy
FractionEnd(s, j) ==
    IF j + 1 <= Len(s) /\ s[j] = "." /\ IsDigit(s[j + 1])
    THEN DigitsEnd(s, j + 1)
    ELSE j

\* (\d+(?:\.\d+)?) tried at position i: the position after its greedy match,
\* or 0 when s has no digit at i.  A shorter match is never followed by
\* anything the patterns below go on with, so backtracking adds no match.
NumberEnd(s, i) ==
    IF ~(i <= Len(s) /\ IsDigit(s[i])) THEN 0
    ELSE FractionEnd(s, DigitsEnd(s, i))

RECURSIVE DigitsToInt(_)
DigitsToInt(s) ==
    IF s = <<>> THEN 0
    ELSE 10 * DigitsToInt(SubSeq(s, 1, Len(s) - 1)) + DigitValue(s[Len(s)])

\* The thousandths a fraction's digits denote, read to the third digit
Thousandths(frac) == DigitsToInt(SubSeq(frac \o <<"0", "0", "0">>, 1, 3))

\* parseFloat of s whose integer digits end before position j
ParseParts(s, j) ==
    Num(1000 * DigitsToInt(SubSeq(s, 1, j - 1))
        + Thousandths(IF j < Len(s) THEN SubSeq(s, j + 1, Len(s)) ELSE <<>>))

\* parseFloat of a match of (\d+(?:\.\d+)?), in thousandths; a fraction is
\* read to its third digit
parseFloat(s) == ParseParts(s, DigitsEnd(s, 1))

\* match ? parseFloat(match[1]) : none, for the leftmost match of a pattern
\* whose capture (\d+(?:\.\d+)?) can start at the positions starts: the
\* leftmost match is the one whose capture starts first
FirstCapture(str, starts, none) ==
    IF starts = {} THEN none
    ELSE parseFloat(SubSeq(str, MinOf(starts), NumberEnd(str, MinOf(starts)) - 1))

\* Where a match of /(\d+(?:\.\d+)?)\s*%/ can start
PercentStarts(str) ==
    {i \in 1..Len(str) :
        /\ NumberEnd(str, i) # 0
        /\ SpacesEnd(str, NumberEnd(str, i)) <= Len(str)
        /\ str[SpacesEnd(str, NumberEnd(str, i))] = "%"}

\* /(\d+(?:\.\d+)?)\s*%/ : the capture of the leftmost match, or null
parsePercentage(str) == FirstCapture(str, PercentStarts(str), Null)

\* Where the capture of /EURO\s*(\d+(?:\.\d+)?)/ can start
EuroCaptureStarts(str) ==
    {SpacesEnd(str, i + 1) : i \in {j \in 1..Len(str) :
        str[j] = "EURO" /\ NumberEnd(str, SpacesEnd(str, j + 1)) # 0}}

\* /EURO\s*(\d+(?:\.\d+)?)/ : the capture of the leftmost match, or null
parseEuroAmount(str) == FirstCapture(str, EuroCaptureStarts(str), Null)

\* The position after EURO? tried at k
AfterEuro(str, k) == IF k <= Len(str) /\ str[k] = "EURO" THEN k + 1 ELSE k

\* Where the capture starts when lit is matched at i: after \s*EURO?\s*
BoundCaptureAt(str, lit, i) ==
    SpacesEnd(str, AfterEuro(str, SpacesEnd(str, i + Len(lit))))

\* Where the capture of /lit\s*EURO?\s*(\d+(?:\.\d+)?)/i can start; low is
\* str in lower case
BoundCaptureStarts(str, low, lit) ==
    {BoundCaptureAt(str, lit, i) : i \in {j \in 1..Len(str) :
        OccursAt(low, lit, j) /\ NumberEnd(str, BoundCaptureAt(str, lit, j)) # 0}}

\* ParseBound without the flag i: the word is matched in the case it has
ParseBound_CaseSensitive(str, word) ==
    FirstCapture(str, BoundCaptureStarts(str, str, word \o <<".">>), Undefined)

\* /word\.\s*EURO?\s*(\d+(?:\.\d+)?)/i for word "min" or "max": the capture
\* of the leftmost match, or undefined (the field is left out of the result)
ParseBound(str, word) ==
    FirstCapture(str, BoundCaptureStarts(str, toLowerCase(str), word \o <<".">>),
                 Undefined)

parseMinMaxFromStructure(str) ==
    [min |-> ParseBound(str, <<"m", "i", "n">>),
     max |-> ParseBound(str, <<"m", "a", "x">>)]

----------------------------------------------------------------------------
(* The format classifier.                                                   *)

\* typeof x === "object" (null included)
TypeofObject(x) == x.t \in {"object", "array", "null"}

\* isNewFormat with custody_charges tested for presence, not for its type
isNewFormat_CustodyPresent(obj) ==
    IF ~Truthy(obj) \/ ~TypeofObject(obj) THEN FALSE
    ELSE /\ Get(obj, "broker_name").t = "string"
         /\ \/ Get(obj, "fee_categories").t = "array"
            \/ Get(obj, "special_fees").t = "array"
            \/ Get(obj, "custody_charges") # Undefined
            \/ Get(obj, "summary").t = "string"

isNewFormat(obj) ==
    IF ~Truthy(obj) \/ ~TypeofObject(obj) THEN FALSE
    ELSE /\ Get(obj, "broker_name").t = "string"
         /\ \/ Get(obj, "fee_categories").t = "array"
            \/ Get(obj, "special_fees").t = "array"
            \/ Get(obj, "custody_charges").t = "string"
            \/ Get(obj, "summary").t = "string"

----------------------------------------------------------------------------
(* The schema normalizer.                                                   *)

\* InstrumentTypeOf with "bond" tried before "option"
InstrumentTypeOf_BondFirst(categoryName) ==
    IF includes(categoryName, <<"b", "o", "n", "d">>) THEN <<"B", "o", "n", "d", "s">>
    ELSE IF includes(categoryName, <<"o", "p", "t", "i", "o", "n">>) THEN <<"O", "p", "t", "i", "o", "n", "s">>
    ELSE IF includes(categoryName, <<"f", "u", "n", "d">>) THEN <<"F", "u", "n", "d", "s">>
    ELSE <<"E", "q", "u", "i", "t", "i", "e", "s">>

\* let instrumentType = "Equities"; if (categoryName.includes("option")) ...
InstrumentTypeOf(categoryName) ==
    IF includes(categoryName, <<"o", "p", "t", "i", "o", "n">>) THEN <<"O", "p", "t", "i", "o", "n", "s">>
    ELSE IF includes(categoryName, <<"b", "o", "n", "d">>) THEN <<"B", "o", "n", "d", "s">>
    ELSE IF includes(categoryName, <<"f", "u", "n", "d">>) THEN <<"F", "u", "n", "d", "s">>
    ELSE <<"E", "q", "u", "i", "t", "i", "e", "s">>

\* let market = "Euronext"; if (volOrCond.includes("brussels") || ...
MarketOf(volOrCond) ==
    IF \/ includes(volOrCond, <<"b", "r", "u", "s", "s", "e", "l", "s">>)
       \/ includes(volOrCond, <<"a", "m", "s", "t", "e", "r", "d", "a", "m">>)
       \/ includes(volOrCond, <<"p", "a", "r", "i", "s">>)
    THEN <<"E", "u", "r", "o", "n", "e", "x", "t">>
    ELSE IF includes(volOrCond, <<"f", "r", "a", "n", "k", "f", "u", "r", "t">>) \/ includes(volOrCond, <<"x", "e", "t", "r", "a">>)
    THEN <<"F", "r", "a", "n", "k", "f", "u", "r", "t">>
    ELSE IF includes(volOrCond, <<"l", "o", "n", "d", "o", "n">>) \/ includes(volOrCond, <<"l", "i", "f", "f", "e">>)
    THEN <<"L", "o", "n", "d", "o", "n">>
    ELSE IF includes(volOrCond, <<"z", "u", "r", "i", "c", "h">>) \/ includes(volOrCond, <<"s", "i", "x">>)
    THEN <<"Z", "u", "r", "i", "c", "h">>
    ELSE IF includes(volOrCond, <<"u", "s">>) \/ includes(volOrCond, <<"c", "b", "o", "e">>)
    THEN <<"U", "S", "A">>
    ELSE IF includes(volOrCond, <<"c", "a", "n", "a", "d", "a">>) \/ includes(volOrCond, <<"t", "s", "x">>)
    THEN <<"C", "a", "n", "a", "d", "a">>
    ELSE IF includes(volOrCond, <<"H", "e", "l", "s", "i", "n", "k", "i">>) \/ includes(volOrCond, <<"o", "m", "x">>)
    THEN (IF includes(volOrCond, <<"H", "e", "l", "s", "i", "n", "k", "i">>) THEN <<"H", "e", "l", "s", "i", "n", "k", "i">>
          ELSE IF includes(volOrCond, <<"S", "t", "o", "c", "k", "h", "o", "l", "m">>) THEN <<"S", "t", "o", "c", "k", "h", "o", "l", "m">>
          ELSE IF includes(volOrCond, <<"K", "o", "p", "e", "n", "h", "a", "g", "e", "n">>) THEN <<"C", "o", "p", "e", "n", "h", "a", "g", "e", "n">>
          ELSE <<"O", "s", "l", "o">>)
    ELSE IF includes(volOrCond, <<"i", "n", "d", "e", "x">>)
    THEN <<"I", "n", "d", "e", "x", " ", "O", "p", "t", "i", "o", "n", "s">>
    ELSE <<"E", "u", "r", "o", "n", "e", "x", "t">>

\* hi, hi - 1, ..., lo
Desc(hi, lo) == [k \in 1..(hi - lo + 1) |-> hi - k + 1]

\* The elements of a list of lists, in order
RECURSIVE Concat(_)
Concat(lists) == IF lists = <<>> THEN <<>> ELSE Head(lists) \o Concat(Tail(lists))

\* The position after the longest run of groups ,\d{3} from p on
RECURSIVE CommaGroupsEnd(_, _)
CommaGroupsEnd(s, p) ==
    IF /\ p + 3 <= Len(s)
       /\ s[p] = ","
       /\ IsDigit(s[p + 1]) /\ IsDigit(s[p + 2]) /\ IsDigit(s[p + 3])
    THEN CommaGroupsEnd(s, p + 4)
    ELSE p

\* The ends of (?:EURO?\s*) tried at p, in the order the matcher tries them:
\* EURO? and \s* are greedy
EuroSpaceEnds(s, p) ==
    (IF p <= Len(s) /\ s[p] = "EURO" THEN Desc(SpacesEnd(s, p + 1), p + 1) ELSE <<>>)
    \o Desc(SpacesEnd(s, p), p)

\* The ends of (?:word|EURO?\s*) tried at p, in the matcher's order
AltEnds(s, word, p) ==
    (IF OccursAt(s, word, p) THEN <<p + Len(word)>> ELSE <<>>) \o EuroSpaceEnds(s, p)

\* The ends of (?:\.\d+)? tried at q, in the matcher's order
FracEnds(s, q) ==
    (IF q + 1 <= Len(s) /\ s[q] = "." /\ IsDigit(s[q + 1])
     THEN Desc(DigitsEnd(s, q + 1), q + 2) ELSE <<>>) \o <<q>>

\* The ends of (?:,\d{3})*(?:\.\d+)? tried at d, where the groups end at g at
\* the most: the groups are given up one by one
GroupEndsUpTo(s, d, g) ==
    Concat([k \in 1..((g - d) \div 4 + 1) |-> FracEnds(s, g - 4 * (k - 1))])

GroupEnds(s, d) == GroupEndsUpTo(s, d, CommaGroupsEnd(s, d))

\* The ends of \d+(?:,\d{3})*(?:\.\d+)? tried at p, in the matcher's order:
\* each part greedy, the later part given up first
GroupedNumberEnds(s, p) ==
    IF ~(p <= Len(s) /\ IsDigit(s[p])) THEN <<>>
    ELSE Concat([k \in 1..(DigitsEnd(s, p) - p) |->
                    GroupEnds(s, DigitsEnd(s, p) - k + 1)])

RemoveCommas(s) == SelectSeq(s, LAMBDA c : c # ",")

\* The matcher's paths through
\*   /(?:from|EURO?\s*)(\d+(?:,\d{3})*(?:\.\d+)?)\s*(?:to|EURO?\s*)(\d+(?:,\d{3})*(?:\.\d+)?)/
\* up to the second capture, in the order it tries them.  A path is
\* <<a, b, c>>: the first capture is [a, b), the second starts at c.
\* The paths that leave \s* at w:
PathsToSecond(s, a, b, w) ==
    [k \in 1..Len(AltEnds(s, <<"t", "o">>, w)) |-> <<a, b, AltEnds(s, <<"t", "o">>, w)[k]>>]

\* The paths whose first capture is [a, b): \s* is greedy
PathsAfterFirst(s, a, b) ==
    Concat([k \in 1..(SpacesEnd(s, b) - b + 1) |->
               PathsToSecond(s, a, b, SpacesEnd(s, b) - k + 1)])

\* The paths whose first capture starts at a
PathsOfFirst(s, a) ==
    Concat([k \in 1..Len(GroupedNumberEnds(s, a)) |->
               PathsAfterFirst(s, a, GroupedNumberEnds(s, a)[k])])

\* The paths of a match that starts at i
PathsFrom(s, i) ==
    Concat([k \in 1..Len(AltEnds(s, <<"f", "r", "o", "m">>, i)) |->
               PathsOfFirst(s, AltEnds(s, <<"f", "r", "o", "m">>, i)[k])])

\* The paths of all matches, leftmost start first
TierPaths(s) == Concat([i \in 1..(Len(s) + 1) |-> PathsFrom(s, i)])

\* The two captures of the match along the path p
Captures(s, p) ==
    [t  |-> "match",
     m1 |-> SubSeq(s, p[1], p[2] - 1),
     m2 |-> SubSeq(s, p[3], GroupedNumberEnds(s, p[3])[1] - 1)]

\* The captures along the first of the paths on which the second capture
\* matches, or null
FirstMatch(s, paths) ==
    IF \A k \in 1..Len(paths) : GroupedNumberEnds(s, paths[k][3]) = <<>> THEN Null
    ELSE Captures(s, paths[MinOf({k \in 1..Len(paths) :
                                     GroupedNumberEnds(s, paths[k][3]) # <<>>})])

\* volOrCond.match of the pattern above: the two captures of the first match
\* the backtracking matcher finds (leftmost start, then its order of
\* alternatives), or null
tierMatch(s) == FirstMatch(s, TierPaths(s))

\* base, percent, min and tieredPricing as they are declared
NoFees == [base |-> Null, percent |-> Null, min |-> Null, tieredPricing |-> Null]

\* tieredPricing = [{ from, to, fee, currency: "EUR" }] of a match tm
TieredPricing(tm, feeStructure) ==
    Arr(<<ObjOf(<<
        <<"from", parseFloat(RemoveCommas(tm.m1))>>,
        <<"to", parseFloat(RemoveCommas(tm.m2))>>,
        <<"fee", parseEuroAmount(feeStructure)>>,
        <<"currency", Str(<<"E", "U", "R">>)>> >>)>>)

\* CurrencyFees with the fee of the tier entry kept as the base as well
CurrencyFees_KeepsBase(tm, feeStructure) ==
    IF tm # Null
    THEN [NoFees EXCEPT !.tieredPricing = TieredPricing(tm, feeStructure),
                        !.base = parseEuroAmount(feeStructure)]
    ELSE [NoFees EXCEPT !.base = parseEuroAmount(feeStructure)]

\* A fee structure with a currency sign: tiered if volOrCond gives the
\* bounds (tm), a fixed fee if not
CurrencyFees(tm, feeStructure) ==
    IF tm # Null
    THEN [NoFees EXCEPT !.tieredPricing = TieredPricing(tm, feeStructure)]
    ELSE [NoFees EXCEPT !.base = parseEuroAmount(feeStructure)]

\* if (feeStructure === "Free" || ...) {...} else if (...includes("%")) {...}
\* else if (...includes("EURO") || ...) {...}
FeesOfStructure(feeStructure, volOrCond) ==
    IF feeStructure = <<"F", "r", "e", "e">> \/ toLowerCase(feeStructure) = <<"f", "r", "e", "e">>
    THEN [NoFees EXCEPT !.base = Num(0)]
    ELSE IF includes(feeStructure, <<"%">>)
    THEN [NoFees EXCEPT
            !.percent = parsePercentage(feeStructure),
            !.min = IF includes(feeStructure, <<"m", "i", "n">>)
                    THEN parseEuroAmount(feeStructure) ELSE Null]
    ELSE IF \/ includes(feeStructure, <<"EURO">>)
            \/ includes(feeStructure, <<"$">>)
            \/ includes(feeStructure, <<"POUND">>)
    THEN CurrencyFees(tierMatch(volOrCond), feeStructure)
    ELSE NoFees

\* if (minMaxParsed.min !== undefined) min = minMaxParsed.min;
\* if (minMaxParsed.max !== undefined) max = minMaxParsed.max;
WithMinMax(fees, minMaxParsed) ==
    [base          |-> fees.base,
     percent       |-> fees.percent,
     min           |-> IF minMaxParsed.min # Undefined
                       THEN minMaxParsed.min ELSE fees.min,
     max           |-> IF minMaxParsed.max # Undefined
                       THEN minMaxParsed.max ELSE Null,
     tieredPricing |-> fees.tieredPricing]

\* The fee structure of one tier: base, percent, min, max and tieredPricing
ParseFeeStructure(feeStructure, volOrCond) ==
    WithMinMax(FeesOfStructure(feeStructure, volOrCond),
               parseMinMaxFromStructure(feeStructure))

\* The object transactionFees.push gets
TransactionFee(instrumentType, volOrCond, feeStructure, parsed, notes) ==
    ObjOf(<<
      <<"instrument_type", Str(instrumentType)>>,
      <<"market", Str(MarketOf(volOrCond))>>,
      <<"pricing_type", IF Truthy(parsed.tieredPricing)
                        THEN Str(<<"t", "i", "e", "r", "e", "d">>) ELSE Str(<<"l", "i", "n", "e", "a", "r">>)>>,
      <<"formula_human", Str(feeStructure)>>,
      <<"formula_structured", ObjOf(<<
          <<"base", parsed.base>>,
          <<"percent", parsed.percent>>,
          <<"min", parsed.min>>,
          <<"max", parsed.max>> >>)>>,
      <<"tiers", parsed.tieredPricing>>,
      <<"notes", IF Truthy(notes) THEN notes ELSE Str(<<>>)>> >>)

\* The body of category.tiers.forEach: the transaction fee pushed for one
\* tier, or Thrown where it reads a property of null or undefined or calls a
\* string method on what is no string
ConvertTier(tier, instrumentType) ==
    IF IsNullish(tier) THEN Thrown
    ELSE IF Get(tier, "volume_or_condition").t # "string" THEN Thrown
    ELSE IF Get(tier, "fee_structure").t # "string" THEN Thrown
    ELSE TransactionFee(instrumentType,
                        toLowerCase(Get(tier, "volume_or_condition").v),
                        Get(tier, "fee_structure").v,
                        ParseFeeStructure(Get(tier, "fee_structure").v,
                                          toLowerCase(Get(tier, "volume_or_condition").v)),
                        Get(tier, "notes"))

IsThrown(x) == x.t = "throw"

AnyThrown(seq) == \E i \in 1..Len(seq) : IsThrown(seq[i])

\* What a forEach or a map leaves of the results of its callback: the list
\* of them, or Thrown if the callback threw
AllOrThrown(seq) == IF AnyThrown(seq) THEN Thrown ELSE Arr(seq)

\* Likewise of a callback that gives a list each time: the lists in one
ConcatOrThrown(per) ==
    IF AnyThrown(per) THEN Thrown
    ELSE Arr(Concat([i \in 1..Len(per) |-> per[i].v]))

\* category.tiers.forEach(...)
ConvertTiers(tiers, instrumentType) ==
    AllOrThrown([i \in 1..Len(tiers) |-> ConvertTier(tiers[i], instrumentType)])

\* The body of broker.fee_categories.forEach: the transaction fees pushed
\* for one category, or Thrown
ConvertCategory(category) ==
    IF IsNullish(category) THEN Thrown
    ELSE IF Get(category, "category").t # "string" THEN Thrown
    ELSE IF Get(category, "tiers").t # "array" THEN Thrown
    ELSE ConvertTiers(Get(category, "tiers").v,
                      InstrumentTypeOf(toLowerCase(Get(category, "category").v)))

\* if (cats) { cats.forEach(...) }
ConvertCategories(cats) ==
    IF ~Truthy(cats) THEN Arr(<<>>)
    ELSE IF cats.t # "array" THEN Thrown
    ELSE ConcatOrThrown([i \in 1..Len(cats.v) |-> ConvertCategory(cats.v[i])])

\* if (broker.fee_categories) { broker.fee_categories.forEach(...) }
TransactionFeesOf(broker) == ConvertCategories(Get(broker, "fee_categories"))

\* a || b
OrElse(a, b) == IF Truthy(a) THEN a ELSE b

\* The object otherFees.push gets
OtherFee(name, amount, whenApplied) ==
    ObjOf(<<
      <<"name", name>>,
      <<"type", IF includes(amount, <<"%">>)
                THEN Str(<<"p", "e", "r", "c", "e", "n", "t", "a", "g", "e">>) ELSE Str(<<"f", "i", "x", "e", "d">>)>>,
      <<"value", OrElse(parseEuroAmount(amount), parsePercentage(amount))>>,
      <<"currency", Str(<<"E", "U", "R">>)>>,
      <<"frequency", IF includes(whenApplied.v, <<"a", "n", "n", "u", "a", "l">>)
                     THEN Str(<<"y", "e", "a", "r", "l", "y">>) ELSE Str(<<"o", "n", " ", "t", "r", "a", "n", "s", "a", "c", "t", "i", "o", "n">>)>>,
      <<"notes", whenApplied>> >>)

\* The body of broker.special_fees.forEach: the other fee pushed, or Thrown
ConvertSpecialFee(fee) ==
    IF IsNullish(fee) THEN Thrown
    ELSE IF Get(fee, "amount").t # "string" THEN Thrown
    ELSE IF Get(fee, "when_applied").t # "string" THEN Thrown
    ELSE OtherFee(Get(fee, "description"), Get(fee, "amount").v,
                  Get(fee, "when_applied"))

\* if (special) { special.forEach(...) }
ConvertSpecialFees(special) ==
    IF ~Truthy(special) THEN Arr(<<>>)
    ELSE IF special.t # "array" THEN Thrown
    ELSE AllOrThrown([i \in 1..Len(special.v) |-> ConvertSpecialFee(special.v[i])])

\* if (broker.special_fees) { broker.special_fees.forEach(...) }
OtherFeesOf(broker) == ConvertSpecialFees(Get(broker, "special_fees"))

\* custodyFee = { type, value, currency: "EUR", frequency, notes } of the
\* string charges
CustodyFee(charges) ==
    ObjOf(<<
      <<"type", IF includes(charges, <<"%">>)
                THEN Str(<<"p", "e", "r", "c", "e", "n", "t", "a", "g", "e">>) ELSE Str(<<"f", "i", "x", "e", "d">>)>>,
      <<"value", IF includes(charges, <<"%">>) THEN parsePercentage(charges)
                 ELSE parseEuroAmount(charges)>>,
      <<"currency", Str(<<"E", "U", "R">>)>>,
      <<"frequency", IF includes(charges, <<"m", "o", "n", "t", "h">>)
                     THEN Str(<<"m", "o", "n", "t", "h", "l", "y">>) ELSE Str(<<"y", "e", "a", "r", "l", "y">>)>>,
      <<"notes", Str(charges)>> >>)

\* let custodyFee = null; if (charges && charges !== "None") {...}
CustodyFeeOfCharges(charges) ==
    IF ~Truthy(charges) THEN Null
    ELSE IF charges.t = "string" /\ charges.v = <<"N", "o", "n", "e">> THEN Null
    ELSE IF charges.t # "string" THEN Thrown
    ELSE CustodyFee(charges.v)

CustodyFeeOf(broker) == CustodyFeeOfCharges(Get(broker, "custody_charges"))

\* Whether the callback f => f.description.toLowerCase().includes("currency")
\* throws on f
FindThrowsOn(f) == IsNullish(f) \/ Get(f, "description").t # "string"

\* Whether it returns true on f
MentionsCurrency(f) ==
    /\ ~FindThrowsOn(f)
    /\ includes(toLowerCase(Get(f, "description").v), <<"c", "u", "r", "r", "e", "n", "c", "y">>)

\* { type: "percentage", value, notes: "Currency conversion" }, or Thrown if
\* value is
FxFee(value) ==
    IF IsThrown(value) THEN Thrown
    ELSE ObjOf(<< <<"type", Str(<<"p", "e", "r", "c", "e", "n", "t", "a", "g", "e">>)>>,
                  <<"value", value>>,
                  <<"notes", Str(<<"C", "u", "r", "r", "e", "n", "c", "y", " ", "c", "o", "n", "v", "e", "r", "s", "i", "o", "n">>)>> >>)

\* found.amount.includes("%") ? parsePercentage(found.amount || "") : null
FxValue(amount) ==
    IF amount.t # "string" THEN Thrown
    ELSE IF includes(amount.v, <<"%">>) THEN parsePercentage(amount.v)
    ELSE Null

\* fx_fees of the special fees s, of which those at the positions hits
\* mention the currency: the callback of find runs up to the first hit
FxFeesOfHits(s, hits) ==
    IF \E i \in 1..(IF hits = {} THEN Len(s) ELSE MinOf(hits)) : FindThrowsOn(s[i])
    THEN Thrown
    ELSE IF hits = {} THEN FxFee(Null)
    ELSE FxFee(FxValue(Get(s[MinOf(hits)], "amount")))

\* fx_fees: special ? {type, value, notes} : null
FxFeesOfSpecial(special) ==
    IF ~Truthy(special) THEN Null
    ELSE IF special.t # "array" THEN Thrown
    ELSE FxFeesOfHits(special.v,
                      {i \in 1..Len(special.v) : MentionsCurrency(special.v[i])})

FxFeesOf(broker) == FxFeesOfSpecial(Get(broker, "special_fees"))

\* CanonicalRecord with the broker's summary carried over into the record
CanonicalRecord_KeepsSummary(broker, now, transactionFees, otherFees, custodyFee, fxFees) ==
    IF AnyThrown(<<transactionFees, otherFees, custodyFee, fxFees>>) THEN Thrown
    ELSE ObjOf(<<
           <<"broker_name", Get(broker, "broker_name")>>,
           <<"summary", Get(broker, "summary")>>,
           <<"country", Str(<<"B", "e", "l", "g", "i", "u", "m">>)>>,
           <<"source_url", Str(<<"h", "t", "t", "p", "s", ":", "/", "/", "b", "r", "o", "k", "e", "r", ".", "e", "x", "a", "m", "p", "l", "e", ".", "c", "o", "m">>)>>,
           <<"source_type", Str(<<"b", "r", "o", "k", "e", "r", "_", "w", "e", "b", "s", "i", "t", "e">>)>>,
           <<"source_last_checked", now>>,
           <<"account_type", Str(<<"p", "r", "i", "v", "a", "t", "e">>)>>,
           <<"pricing_model", ObjOf(<<
               <<"custody_fee", custodyFee>>,
               <<"transaction_fees", IF Len(transactionFees.v) > 0
                                     THEN transactionFees ELSE Null>>,
               <<"fx_fees", fxFees>>,
               <<"other_fees", IF Len(otherFees.v) > 0
                               THEN otherFees ELSE Null>> >>)>> >>)

\* The object the callback of .map returns, or Thrown if a part is
CanonicalRecord(broker, now, transactionFees, otherFees, custodyFee, fxFees) ==
    IF AnyThrown(<<transactionFees, otherFees, custodyFee, fxFees>>) THEN Thrown
    ELSE ObjOf(<<
           <<"broker_name", Get(broker, "broker_name")>>,
           <<"country", Str(<<"B", "e", "l", "g", "i", "u", "m">>)>>,
           <<"source_url", Str(<<"h", "t", "t", "p", "s", ":", "/", "/", "b", "r", "o", "k", "e", "r", ".", "e", "x", "a", "m", "p", "l", "e", ".", "c", "o", "m">>)>>,
           <<"source_type", Str(<<"b", "r", "o", "k", "e", "r", "_", "w", "e", "b", "s", "i", "t", "e">>)>>,
           <<"source_last_checked", now>>,
           <<"account_type", Str(<<"p", "r", "i", "v", "a", "t", "e">>)>>,
           <<"pricing_model", ObjOf(<<
               <<"custody_fee", custodyFee>>,
               <<"transaction_fees", IF Len(transactionFees.v) > 0
                                     THEN transactionFees ELSE Null>>,
               <<"fx_fees", fxFees>>,
               <<"other_fees", IF Len(otherFees.v) > 0
                               THEN otherFees ELSE Null>> >>)>> >>)

\* The callback of .map: one broker's canonical record, or Thrown.  now is
\* new Date().toISOString() at the call.
ConvertBroker(broker, now) ==
    CanonicalRecord(broker, now, TransactionFeesOf(broker), OtherFeesOf(broker),
                    CustodyFeeOf(broker), FxFeesOf(broker))

\* WithoutError giving up at the first record with an error: the records
\* before it
WithoutError_StopsAtError(brokerData) ==
    SubSeq(brokerData, 1,
           MinOf({i \in 1..Len(brokerData) : Truthy(Get(brokerData[i], "error"))}
                 \cup {Len(brokerData) + 1}) - 1)

\* brokerData.filter((broker) => !broker.error)
WithoutError(brokerData) ==
    SelectSeq(brokerData, LAMBDA b : ~Truthy(Get(b, "error")))

\* .map(...) of the brokers kept
ConvertEach(kept, now) ==
    AllOrThrown([i \in 1..Len(kept) |-> ConvertBroker(kept[i], now)])

\* brokerData.filter((broker) => !broker.error).map(...), for an array
\* brokerData: the list of canonical records, or Thrown
convertNewFormatToOldFormat(brokerData, now) ==
    IF \E i \in 1..Len(brokerData) : IsNullish(brokerData[i]) THEN Thrown
    ELSE ConvertEach(WithoutError(brokerData), now)

----------------------------------------------------------------------------
(* The row flattener.                                                       *)

EXAMPLE_AMOUNTS == <<Num(1000000), Num(5000000), Num(10000000)>>

RECURSIVE IntToString(_)
IntToString(n) ==
    IF n < 10 THEN <<Digits[n + 1]>>
    ELSE IntToString(n \div 10) \o <<Digits[(n % 10) + 1]>>

RECURSIVE StripZeros(_)
StripZeros(s) ==
    IF s # <<>> /\ s[Len(s)] = "0" THEN StripZeros(SubSeq(s, 1, Len(s) - 1)) ELSE s

\* The digits of f thousandths after the point, without trailing zeros
FractionDigits(f) ==
    StripZeros(<<Digits[(f \div 100) + 1], Digits[((f \div 10) % 10) + 1],
                 Digits[(f % 10) + 1]>>)

WithFraction(whole, frac) ==
    IF frac = <<>> THEN whole ELSE whole \o <<".">> \o frac

\* Number to string: the shortest decimal that reads back as the number
NumberToString(n) == WithFraction(IntToString(n \div 1000), FractionDigits(n % 1000))

\* String(x), as a template literal applies it, of a primitive
StringOf(x) ==
    CASE x.t = "string"    -> x.v
      [] x.t = "number"    -> NumberToString(x.v)
      [] x.t = "undefined" -> <<"u", "n", "d", "e", "f", "i", "n", "e", "d">>
      [] x.t = "null"      -> <<"n", "u", "l", "l">>
      [] x.t = "boolean"   -> IF x.v THEN <<"t", "r", "u", "e">> ELSE <<"f", "a", "l", "s", "e">>
      [] OTHER             -> <<"[", "o", "b", "j", "e", "c", "t", " ", "O", "b", "j", "e", "c", "t", "]">>

\* Array.prototype.join of a list of strings
RECURSIVE Join(_, _)
Join(parts, sep) ==
    IF parts = <<>> THEN <<>>
    ELSE IF Len(parts) = 1 THEN parts[1]
    ELSE parts[1] \o sep \o Join(Tail(parts), sep)

\* const freq = fee.frequency ? `/${fee.frequency}` : ""
FrequencyOf(fee) ==
    IF Truthy(Get(fee, "frequency"))
    THEN <<"/">> \o StringOf(Get(fee, "frequency")) ELSE <<>>

\* SummarizeValue with a null value read as a number: the part is pushed
SummarizeValue_NullAsNumber(fee) ==
    <<trim(StringOf(Get(fee, "value")) \o <<" ">>
           \o StringOf(Coalesce(Get(fee, "currency"), Str(<<>>)))
           \o FrequencyOf(fee))>>

\* if (fee.value !== null) parts.push(`${fee.value} ${fee.currency ?? ""}${freq}`.trim())
SummarizeValue(fee) ==
    IF Get(fee, "value") # Null
    THEN <<trim(StringOf(Get(fee, "value")) \o <<" ">>
                \o StringOf(Coalesce(Get(fee, "currency"), Str(<<>>)))
                \o FrequencyOf(fee))>>
    ELSE <<>>

\* if (fee.notes) parts.push(fee.notes)
PartsOf(fee) ==
    IF Truthy(Get(fee, "notes"))
    THEN SummarizeValue(fee) \o <<StringOf(Get(fee, "notes"))>>
    ELSE SummarizeValue(fee)

\* const detail = parts.length ? ` (${parts.join(" BULLET ")})` : ""
DetailOf(parts) ==
    IF Len(parts) > 0
    THEN <<" ", "(">> \o Join(parts, <<" ", "BULLET", " ">>) \o <<")">> ELSE <<>>

\* The callback of fees.map in summarizeOtherFees, for a fee that is neither
\* null nor undefined
SummarizeOtherFee(fee) == StringOf(Get(fee, "name")) \o DetailOf(PartsOf(fee))

\* summarizeOtherFees: the summary string, or Thrown
summarizeOtherFees(fees) ==
    IF IsNullish(fees) \/ ~Truthy(LengthOf(fees)) THEN Str(<<>>)
    ELSE IF fees.t # "array" THEN Thrown
    ELSE IF \E i \in 1..Len(fees.v) : IsNullish(fees.v[i]) THEN Thrown
    ELSE Str(Join([i \in 1..Len(fees.v) |-> SummarizeOtherFee(fees.v[i])], <<";", " ">>))

\* RowOf with an id that leaves the index out
RowOf_IdWithoutIndex(broker, fee, idx, custody, fx, otherSummary) ==
    ObjOf(<<
      <<"id", Str(StringOf(Get(broker, "broker_name")) \o <<"-">>
                  \o StringOf(Get(fee, "instrument_type")) \o <<"-">>
                  \o StringOf(Get(fee, "market")))>>,
      <<"broker", Get(broker, "broker_name")>>,
      <<"instrumentType", Get(fee, "instrument_type")>>,
      <<"market", Get(fee, "market")>>,
      <<"pricingType", Get(fee, "pricing_type")>>,
      <<"baseFee", Coalesce(OptGet(Get(fee, "formula_structured"), "base"), Null)>>,
      <<"percentFee", Coalesce(OptGet(Get(fee, "formula_structured"), "percent"), Null)>>,
      <<"minFee", Coalesce(OptGet(Get(fee, "formula_structured"), "min"), Null)>>,
      <<"maxFee", Coalesce(OptGet(Get(fee, "formula_structured"), "max"), Null)>>,
      <<"custodyFeeType", Coalesce(OptGet(custody, "type"), Str(<<>>))>>,
      <<"custodyFeeValue", Coalesce(OptGet(custody, "value"), Null)>>,
      <<"custodyFrequency", Coalesce(OptGet(custody, "frequency"), Str(<<>>))>>,
      <<"fxFeeType", Coalesce(OptGet(fx, "type"), Str(<<>>))>>,
      <<"fxFeeValue", Coalesce(OptGet(fx, "value"), Null)>>,
      <<"otherFeesSummary", otherSummary>>,
      <<"sourceUrl", Get(broker, "source_url")>>,
      <<"exampleFee1000", calcLinearOrTieredFee(fee, EXAMPLE_AMOUNTS[1])>>,
      <<"exampleFee5000", calcLinearOrTieredFee(fee, EXAMPLE_AMOUNTS[2])>>,
      <<"exampleFee10000", calcLinearOrTieredFee(fee, EXAMPLE_AMOUNTS[3])>> >>)

\* The callback of transaction_fees.map: the row of the fee at index idx
\* (from 0) of a broker, for a fee that is neither null nor undefined
RowOf(broker, fee, idx, custody, fx, otherSummary) ==
    ObjOf(<<
      <<"id", Str(StringOf(Get(broker, "broker_name")) \o <<"-">>
                  \o StringOf(Get(fee, "instrument_type")) \o <<"-">>
                  \o StringOf(Get(fee, "market")) \o <<"-">>
                  \o IntToString(idx))>>,
      <<"broker", Get(broker, "broker_name")>>,
      <<"instrumentType", Get(fee, "instrument_type")>>,
      <<"market", Get(fee, "market")>>,
      <<"pricingType", Get(fee, "pricing_type")>>,
      <<"baseFee", Coalesce(OptGet(Get(fee, "formula_structured"), "base"), Null)>>,
      <<"percentFee", Coalesce(OptGet(Get(fee, "formula_structured"), "percent"), Null)>>,
      <<"minFee", Coalesce(OptGet(Get(fee, "formula_structured"), "min"), Null)>>,
      <<"maxFee", Coalesce(OptGet(Get(fee, "formula_structured"), "max"), Null)>>,
      <<"custodyFeeType", Coalesce(OptGet(custody, "type"), Str(<<>>))>>,
      <<"custodyFeeValue", Coalesce(OptGet(custody, "value"), Null)>>,
      <<"custodyFrequency", Coalesce(OptGet(custody, "frequency"), Str(<<>>))>>,
      <<"fxFeeType", Coalesce(OptGet(fx, "type"), Str(<<>>))>>,
      <<"fxFeeValue", Coalesce(OptGet(fx, "value"), Null)>>,
      <<"otherFeesSummary", otherSummary>>,
      <<"sourceUrl", Get(broker, "source_url")>>,
      <<"exampleFee1000", calcLinearOrTieredFee(fee, EXAMPLE_AMOUNTS[1])>>,
      <<"exampleFee5000", calcLinearOrTieredFee(fee, EXAMPLE_AMOUNTS[2])>>,
      <<"exampleFee10000", calcLinearOrTieredFee(fee, EXAMPLE_AMOUNTS[3])>> >>)

\* (pm?.transaction_fees ?? []).map(...): the rows of one broker, or Thrown
MapRows(broker, fees, custody, fx, otherSummary) ==
    IF IsThrown(otherSummary) THEN Thrown
    ELSE IF fees.t # "array" THEN Thrown
    ELSE IF \E i \in 1..Len(fees.v) : IsNullish(fees.v[i]) THEN Thrown
    ELSE Arr([i \in 1..Len(fees.v) |->
                 RowOf(broker, fees.v[i], i - 1, custody, fx, otherSummary)])

\* The rows of a broker whose pricing_model is pm
RowsOfModel(broker, pm) ==
    MapRows(broker,
            Coalesce(OptGet(pm, "transaction_fees"), Arr(<<>>)),
            Coalesce(OptGet(pm, "custody_fee"), Null),
            Coalesce(OptGet(pm, "fx_fees"), Null),
            summarizeOtherFees(Coalesce(OptGet(pm, "other_fees"), Null)))

\* The callback of normalized.flatMap: the rows of one broker, or Thrown
RowsOf(broker) ==
    IF IsNullish(broker) THEN Thrown
    ELSE RowsOfModel(broker, Get(broker, "pricing_model"))

\* Normalized with the decision taken per element: each new-format element is
\* converted by itself, the others are left as they are
Normalized_PerBroker(brokers, now) ==
    ConcatOrThrown([i \in 1..Len(brokers.v) |->
        IF isNewFormat(brokers.v[i])
        THEN convertNewFormatToOldFormat(<<brokers.v[i]>>, now)
        ELSE Arr(<<brokers.v[i]>>)])

\* Normalized without the test of the shape: every list is converted
Normalized_AlwaysConverts(brokers, now) ==
    convertNewFormatToOldFormat(brokers.v, now)

\* const normalized = isNew ? convertNewFormatToOldFormat(brokers) : brokers
Normalized(brokers, now) ==
    IF \E i \in 1..Len(brokers.v) : isNewFormat(brokers.v[i])
    THEN convertNewFormatToOldFormat(brokers.v, now)
    ELSE brokers

\* normalized.flatMap(...): the rows of all brokers, or Thrown
FlatMapRows(normalized) ==
    IF IsThrown(normalized) THEN Thrown
    ELSE ConcatOrThrown([i \in 1..Len(normalized.v) |-> RowsOf(normalized.v[i])])

\* The part of flattenApiData after its guard, for an array brokers
FlattenArray(brokers, now) == FlatMapRows(Normalized(brokers, now))

\* flattenApiData without its guard: brokers.some of what is no array
flattenApiData_Unguarded(brokers, now) ==
    IF brokers.t # "array" THEN Thrown ELSE FlattenArray(brokers, now)

\* flattenApiData: the list of rows, or Thrown.  now is the time of the call.
flattenApiData(brokers, now) ==
    IF brokers.t # "array" THEN Arr(<<>>) ELSE FlattenArray(brokers, now)

----------------------------------------------------------------------------
(* The callers.  A run is one call of one exported function: the caller     *)
(* holds the arguments, the call returns a value or throws.  clock is the   *)
(* wall clock new Date() reads.                                             *)

VARIABLES call, fee, amount, payload, clock, pc, ret, invocations, state, rendered, inFlight, lastCall, localStorage

vars == <<call, fee, amount, payload, clock, pc, ret, invocations, state, rendered, inFlight, lastCall, localStorage>>

\* The variables of the callers of the exported functions
callVars == <<call, fee, amount, payload, clock, pc, ret>>

\* The variables of the App component: its React state, the state the
\* functions of its latest render captured, the runs of
\* fetchComparisonTables that await their responses, the last call of
\* fetchComparisonTables, and the keys localStorage holds
appVars == <<state, rendered, inFlight, lastCall, localStorage>>

\* The initial values of useState
InitialState ==
    [comparisonTables    |-> Null,
     financialAnalysis   |-> Null,
     newsData            |-> Null,
     isAnalysisPreparing |-> FALSE,
     error               |-> Null,
     isLoading           |-> TRUE,
     lastUpdated         |-> Null,
     isRefreshing        |-> FALSE,
     isPendingRequest    |-> FALSE]

\* No call of fetchComparisonTables yet
NoCall == [from |-> "none", pending |-> FALSE, issued |-> FALSE]

\* The component as it is mounted
Mounted ==
    /\ state = InitialState
    /\ rendered = InitialState
    /\ inFlight = 0
    /\ lastCall = NoCall
    /\ localStorage = {}

\* No invocation by a second caller
OneCaller == invocations = <<>>

\* new Date().toISOString()
Now == Str(<<"T">> \o IntToString(clock))

Pending == [t |-> "pending"]

\* ---- the inputs of calcLinearOrTieredFee

MaxTiers == 2

Formula(base, percent, min, max) ==
    ObjOf(<< <<"base", base>>, <<"percent", percent>>, <<"min", min>>, <<"max", max>> >>)

Tier(from, to, tfee) ==
    ObjOf(<< <<"from", from>>, <<"to", to>>, <<"fee", tfee>>, <<"currency", Str(<<"E", "U", "R">>)>> >>)

FeeOf(formula, tiers) ==
    ObjOf(<< <<"instrument_type", Str(<<"E", "q", "u", "i", "t", "i", "e", "s">>)>>,
             <<"market", Str(<<"E", "u", "r", "o", "n", "e", "x", "t">>)>>,
             <<"formula_structured", formula>>,
             <<"tiers", tiers>> >>)

BaseValues    == {Absent, Null, Num(0), Num(2000), Num(2005), Num(2135)}
PercentValues == {Absent, Null, Num(0), Num(1000), Num(350)}
MinValues     == {Absent, Null, Num(5000)}
MaxValues     == {Absent, Null, Num(50000), Num(3000)}

LinearFormulas ==
    {Formula(b, p, mn, mx) :
        b \in BaseValues, p \in PercentValues, mn \in MinValues, mx \in MaxValues}

\* Formulas without a number in base and percent
BareFormulas ==
    {Absent, Null} \cup
    {Formula(b, p, mn, Num(50000)) :
        b \in {Absent, Null}, p \in {Absent, Null}, mn \in {Absent, Num(5000)}}

SingleTiers ==
    {Tier(f, t, x) : f \in {Absent, Null, Num(1000000)},
                     t \in {Absent, Null, Num(5000000)},
                     x \in {Absent, Null, Num(10000), Num(2005), Num(2135)}}

TierPool ==
    {Tier(Num(1000000), Num(5000000), Num(10000)),
     Tier(Num(1000000), Num(5000000), Null),
     Tier(Null, Num(999000), Num(2005)),
     Tier(Num(5000000), Null, Num(25000)),
     Tier(Null, Null, Num(30000))}

RECURSIVE ListsOver(_, _)
ListsOver(S, n) ==
    IF n = 0 THEN {<<>>}
    ELSE {<<x>> \o l : x \in S, l \in ListsOver(S, n - 1)}

TierLists ==
    {Absent, Null, Arr(<<>>)}
    \cup {Arr(<<t>>) : t \in SingleTiers}
    \cup UNION {{Arr(l) : l \in ListsOver(TierPool, n)} : n \in 2..MaxTiers}

Amounts == {Num(100000), Num(999000), Num(1000000), Num(5000000), Num(5001000),
            Num(10000000)}

\* Fee records that say which pricing they are of, with a formula and tiers
\* both
PricedFee(pricingType, formula, tiers) ==
    ObjOf(<< <<"instrument_type", Str(<<"E", "q", "u", "i", "t", "i", "e", "s">>)>>,
             <<"market", Str(<<"E", "u", "r", "o", "n", "e", "x", "t">>)>>,
             <<"pricing_type", Str(pricingType)>>,
             <<"formula_human", Str(<<>>)>>,
             <<"formula_structured", formula>>,
             <<"tiers", tiers>>,
             <<"notes", Str(<<>>)>> >>)

PricedFees ==
    {PricedFee(pt, f, t) :
        pt \in {<<"l", "i", "n", "e", "a", "r">>, <<"t", "i", "e", "r", "e", "d">>},
        f \in {Formula(Num(2000), Num(1000), Num(5000), Num(50000)),
               Formula(Num(7500), Null, Null, Null),
               Formula(Null, Null, Null, Null)},
        t \in {Arr(<<Tier(Num(1000000), Num(5000000), Num(10000))>>),
               Arr(<<Tier(Null, Null, Num(30000))>>)}}

CalcFees ==
    {FeeOf(f, t) : f \in LinearFormulas, t \in {Null, Arr(<<Tier(Null, Null, Num(30000))>>)}}
    \cup {FeeOf(f, t) : f \in BareFormulas, t \in TierLists}
    \cup PricedFees

InitEval ==
    /\ call = "calcLinearOrTieredFee"
    /\ fee \in CalcFees
    /\ amount \in Amounts
    /\ payload = Undefined
    /\ clock = 0
    /\ pc = "call"
    /\ ret = Pending
    /\ OneCaller
    /\ Mounted

CallCalcLinearOrTieredFee ==
    /\ call = "calcLinearOrTieredFee"
    /\ pc = "call"
    /\ ret' = calcLinearOrTieredFee(fee, amount)
    /\ pc' = "return"
    /\ UNCHANGED <<call, fee, amount, payload, clock, invocations, appVars>>

NextEval == CallCalcLinearOrTieredFee

SpecEval == InitEval /\ [][NextEval]_vars

----------------------------------------------------------------------------
(* The callers of isNewFormat, convertNewFormatToOldFormat, flattenApiData. *)

MaxBrokers == 2
MaxClock   == 1

\* ---- broker records in the human-readable shape

FeeTier(condition, structure) ==
    ObjOf(<< <<"volume_or_condition", Str(condition)>>,
             <<"fee_structure", Str(structure)>> >>)

FeeCategory(name, tiers) ==
    ObjOf(<< <<"category", Str(name)>>,
             <<"description", Str(<<>>)>>,
             <<"tiers", Arr(tiers)>> >>)

SpecialFee(description, amt, whenApplied) ==
    ObjOf(<< <<"description", Str(description)>>,
             <<"amount", Str(amt)>>,
             <<"when_applied", Str(whenApplied)>> >>)

EquitiesCategory ==
    FeeCategory(<<"T", "r", "a", "d", "i", "n", "g", " ", "-", " ", "E", "q", "u", "i", "t", "i", "e", "s">>,
                <<FeeTier(<<"E", "u", "r", "o", "n", "e", "x", "t", " ", "B", "r", "u", "s", "s", "e", "l", "s", " ", "-", " ", "n", "o", "r", "m", "a", "l", " ", "c", "h", "a", "r", "g", "e">>, <<"1", "%", " ", "M", "i", "n", ".", " ", "EURO", "4", "0">>)>>)

RoundTripBroker ==
    ObjOf(<< <<"broker_name", Str(<<"A">>)>>,
             <<"fee_categories", Arr(<<EquitiesCategory>>)>> >>)

ErrorBroker ==
    ObjOf(<< <<"broker_name", Str(<<"E">>)>>,
             <<"error", Str(<<"t", "i", "m", "e", "o", "u", "t">>)>>,
             <<"fee_categories", Arr(<<EquitiesCategory>>)>> >>)

RichBroker ==
    ObjOf(<< <<"broker_name", Str(<<"B">>)>>,
             <<"summary", Str(<<"L", "o", "w", " ", "c", "o", "s", "t">>)>>,
             <<"fee_categories", Arr(<<
                 FeeCategory(<<"O", "p", "t", "i", "o", "n", "s", " ", "a", "n", "d", " ", "B", "o", "n", "d", "s">>,
                             <<FeeTier(<<"I", "n", "d", "e", "x", " ", "o", "p", "t", "i", "o", "n", "s">>, <<"EURO", "3">>),
                               FeeTier(<<"X", "e", "t", "r", "a">>, <<"F", "r", "e", "e">>)>>) >>)>>,
             <<"special_fees", Arr(<<
                 SpecialFee(<<"C", "u", "r", "r", "e", "n", "c", "y", " ", "e", "x", "c", "h", "a", "n", "g", "e">>, <<"0", ".", "2", "5", "%">>, <<"p", "e", "r", " ", "t", "r", "a", "d", "e">>),
                 SpecialFee(<<"T", "r", "a", "n", "s", "f", "e", "r", " ", "o", "u", "t">>, <<"EURO", "0">>, <<"a", "n", "n", "u", "a", "l">>) >>)>>,
             <<"custody_charges", Str(<<"f", "r", "e", "e", " ", "o", "f", " ", "c", "h", "a", "r", "g", "e">>)>> >>)

SummaryBroker ==
    ObjOf(<< <<"broker_name", Str(<<"S">>)>>,
             <<"summary", Str(<<"N", "o", " ", "d", "a", "t", "a">>)>>,
             <<"custody_charges", Str(<<"N", "o", "n", "e">>)>> >>)

BareErrorBroker ==
    ObjOf(<< <<"broker_name", Str(<<"G">>)>>, <<"error", Str(<<"f", "a", "i", "l", "e", "d">>)>> >>)

\* A record whose error field is there and empty
BlankErrorBroker ==
    ObjOf(<< <<"broker_name", Str(<<"K">>)>>,
             <<"error", Str(<<>>)>>,
             <<"fee_categories", Arr(<<EquitiesCategory>>)>> >>)

HumanReadableBrokers ==
    {RoundTripBroker, ErrorBroker, RichBroker, SummaryBroker, BareErrorBroker,
     BlankErrorBroker}

\* ---- broker records in the legacy shape

AncillaryFee(name, value, frequency, notes) ==
    ObjOf(<< <<"name", name>>,
             <<"type", Str(<<"f", "i", "x", "e", "d">>)>>,
             <<"value", value>>,
             <<"currency", Str(<<"E", "U", "R">>)>>,
             <<"frequency", Str(frequency)>>,
             <<"notes", Str(notes)>> >>)

LegacyFee(formula, tiers) ==
    ObjOf(<< <<"instrument_type", Str(<<"E", "q", "u", "i", "t", "i", "e", "s">>)>>,
             <<"market", Str(<<"E", "u", "r", "o", "n", "e", "x", "t">>)>>,
             <<"pricing_type", IF tiers = Null THEN Str(<<"l", "i", "n", "e", "a", "r">>) ELSE Str(<<"t", "i", "e", "r", "e", "d">>)>>,
             <<"formula_human", Str(<<>>)>>,
             <<"formula_structured", formula>>,
             <<"tiers", tiers>>,
             <<"notes", Str(<<>>)>> >>)

LegacyRecord(name, error, custody, fx, fees, others) ==
    ObjOf(<< <<"broker_name", Str(name)>>,
             <<"error", error>>,
             <<"source_url", Str(<<"h", "t", "t", "p", "s", ":", "/", "/", "l", ".", "e", "x", "a", "m", "p", "l", "e">>)>>,
             <<"pricing_model", ObjOf(<<
                 <<"custody_fee", custody>>,
                 <<"transaction_fees", fees>>,
                 <<"fx_fees", fx>>,
                 <<"other_fees", others>> >>)>> >>)

TwoLegacyFees ==
    Arr(<<LegacyFee(Formula(Num(7500), Null, Null, Null), Null),
          LegacyFee(Formula(Null, Null, Null, Null), Arr(<<Tier(Num(1000000), Num(5000000), Num(10000))>>))>>)

LegacyBroker ==
    LegacyRecord(<<"L">>, Absent,
                 AncillaryFee(Absent, Null, <<"y", "e", "a", "r", "l", "y">>, <<>>),
                 ObjOf(<< <<"type", Str(<<"p", "e", "r", "c", "e", "n", "t", "a", "g", "e">>)>>, <<"value", Null>>,
                          <<"notes", Str(<<>>)>> >>),
                 TwoLegacyFees,
                 Arr(<<AncillaryFee(Str(<<"I", "n", "a", "c", "t", "i", "v", "i", "t", "y">>), Null, <<"y", "e", "a", "r", "l", "y">>, <<"a", "f", "t", "e", "r", " ", "1", "2", " ", "m", "o", "n", "t", "h", "s">>),
                       AncillaryFee(Str(<<"S", "t", "a", "t", "e", "m", "e", "n", "t">>), Num(0), <<"y", "e", "a", "r", "l", "y">>, <<>>),
                       AncillaryFee(Str(<<"C", "l", "o", "s", "i", "n", "g">>), Null, <<>>, <<>>)>>))

LegacyZeroBroker ==
    LegacyRecord(<<"Z">>, Absent,
                 AncillaryFee(Absent, Num(0), <<"m", "o", "n", "t", "h", "l", "y">>, <<>>),
                 ObjOf(<< <<"type", Str(<<"p", "e", "r", "c", "e", "n", "t", "a", "g", "e">>)>>, <<"value", Num(0)>>,
                          <<"notes", Str(<<>>)>> >>),
                 Arr(<<LegacyFee(Formula(Null, Num(350), Num(2500), Null), Null)>>),
                 Arr(<<AncillaryFee(Str(<<"T", "r", "a", "n", "s", "f", "e", "r">>), Num(7500), <<"o", "n", " ", "t", "r", "a", "n", "s", "a", "c", "t", "i", "o", "n">>, <<>>)>>))

LegacyErrorBroker ==
    LegacyRecord(<<"F">>, Str(<<"s", "c", "r", "a", "p", "e", " ", "f", "a", "i", "l", "e", "d">>), Null, Null,
                 Arr(<<LegacyFee(Formula(Num(2000), Null, Null, Null), Null)>>), Null)

LegacyBrokers == {LegacyBroker, LegacyZeroBroker, LegacyErrorBroker}

\* ---- list elements no shape fits

EmptyBroker ==
    ObjOf(<< <<"broker_name", Str(<<"N">>)>>,
             <<"pricing_model", ObjOf(<< <<"transaction_fees", Null>> >>)>> >>)

UnusableElements == {Null, Num(5000), EmptyBroker}

BrokerLists(pool) ==
    UNION {{Arr(l) : l \in ListsOver(pool, n)} : n \in 0..MaxBrokers}

NonArrays ==
    {Undefined, Null, Str(<<"b", "r", "o", "k", "e", "r", "s">>), Num(3000), Bool(TRUE),
     ObjOf(<< <<"brokers", Arr(<<RoundTripBroker>>)>> >>), RoundTripBroker}

Tick ==
    /\ clock < MaxClock
    /\ clock' = clock + 1
    /\ UNCHANGED <<call, fee, amount, payload, pc, ret, invocations, appVars>>

\* ---- isNewFormat

ClassifyObjects ==
    {ObjOf(<< <<"broker_name", bn>>, <<"fee_categories", fc>>, <<"special_fees", sf>>,
              <<"custody_charges", cc>>, <<"summary", sm>>, <<"pricing_model", pm>> >>) :
        bn \in {Absent, Null, Num(7000), Str(<<>>), Str(<<"A">>)},
        fc \in {Absent, Null, Arr(<<>>), Arr(<<EquitiesCategory>>), Str(<<"n", "o", "n", "e">>)},
        sf \in {Absent, Arr(<<>>), ObjOf(<<>>)},
        cc \in {Absent, Str(<<"N", "o", "n", "e">>), Num(0)},
        sm \in {Absent, Str(<<>>), Null},
        pm \in {Absent, ObjOf(<< <<"transaction_fees", Arr(<<>>)>> >>)}}

ClassifyInputs ==
    ClassifyObjects \cup LegacyBrokers \cup HumanReadableBrokers
    \cup {Undefined, Null, Bool(TRUE), Bool(FALSE), Num(0), Num(5000), Str(<<>>),
          Str(<<"A">>), Arr(<<>>), Arr(<<RoundTripBroker>>)}

InitClassify ==
    /\ call = "isNewFormat"
    /\ payload \in ClassifyInputs
    /\ fee = Undefined
    /\ amount = Undefined
    /\ clock = 0
    /\ pc = "call"
    /\ ret = Pending
    /\ OneCaller
    /\ Mounted

CallIsNewFormat ==
    /\ call = "isNewFormat"
    /\ pc = "call"
    /\ ret' = Bool(isNewFormat(payload))
    /\ pc' = "return"
    /\ UNCHANGED <<call, fee, amount, payload, clock, invocations, appVars>>

NextClassify == CallIsNewFormat

SpecClassify == InitClassify /\ [][NextClassify]_vars

\* ---- convertNewFormatToOldFormat

InitConvert ==
    /\ call = "convertNewFormatToOldFormat"
    /\ payload \in BrokerLists(HumanReadableBrokers)
    /\ fee = Undefined
    /\ amount = Undefined
    /\ clock = 0
    /\ pc = "call"
    /\ ret = Pending
    /\ OneCaller
    /\ Mounted

CallConvertNewFormatToOldFormat ==
    /\ call = "convertNewFormatToOldFormat"
    /\ pc = "call"
    /\ ret' = convertNewFormatToOldFormat(payload.v, Now)
    /\ pc' = "return"
    /\ UNCHANGED <<call, fee, amount, payload, clock, invocations, appVars>>

NextConvert == Tick \/ CallConvertNewFormatToOldFormat

SpecConvert == InitConvert /\ [][NextConvert]_vars

\* ---- convertNewFormatToOldFormat of one broker with one fee category

CategoryNames ==
    {<<"T", "r", "a", "d", "i", "n", "g", " ", "-", " ", "E", "q", "u", "i", "t", "i", "e", "s">>, <<"O", "p", "t", "i", "o", "n", "s", " ", "a", "n", "d", " ", "B", "o", "n", "d", "s">>, <<"B", "o", "n", "d", " ", "O", "P", "T", "I", "O", "N", "S">>,
     <<"B", "O", "N", "D", " ", "F", "U", "N", "D", "S">>, <<"I", "n", "v", "e", "s", "t", "m", "e", "n", "t", " ", "F", "u", "n", "d", "s">>, <<"E", "T", "F", "s">>, <<"R", "e", "f", "u", "n", "d", "s">>}

ConditionTexts ==
    {<<"E", "u", "r", "o", "n", "e", "x", "t", " ", "B", "r", "u", "s", "s", "e", "l", "s", " ", "-", " ", "n", "o", "r", "m", "a", "l", " ", "c", "h", "a", "r", "g", "e">>, <<"P", "a", "r", "i", "s", " ", "o", "r", " ", "F", "r", "a", "n", "k", "f", "u", "r", "t">>,
     <<"A", "M", "S", "T", "E", "R", "D", "A", "M", " ", "i", "n", "d", "e", "x", " ", "o", "p", "t", "i", "o", "n", "s">>, <<"B", "r", "u", "s", "s", "e", "l", "s", " ", "O", "M", "X">>, <<"X", "e", "t", "r", "a">>, <<"L", "o", "n", "d", "o", "n", " ", "S", "I", "X">>,
     <<"S", "I", "X", " ", "S", "w", "i", "s", "s", " ", "o", "r", " ", "U", "S">>, <<"U", "S", " ", "m", "a", "r", "k", "e", "t", "s", " ", "(", "C", "B", "O", "E", ")", ",", " ", "T", "S", "X">>, <<"C", "a", "n", "a", "d", "a", " ", "i", "n", "d", "e", "x">>,
     <<"O", "M", "X", " ", "i", "n", "d", "e", "x">>, <<"I", "n", "d", "e", "x", " ", "f", "u", "t", "u", "r", "e", "s">>, <<"O", "n", "l", "i", "n", "e", " ", "o", "r", "d", "e", "r", "s">>, <<"O", "M", "X", " ", "O", "s", "l", "o">>,
     <<"H", "e", "l", "s", "i", "n", "k", "i", " ", "O", "M", "X">>, <<"O", "M", "X", " ", "S", "t", "o", "c", "k", "h", "o", "l", "m">>, <<"O", "M", "X", " ", "K", "o", "p", "e", "n", "h", "a", "g", "e", "n">>,
     <<"H", "e", "l", "s", "i", "n", "k", "i", " ", "i", "n", "d", "e", "x">>, <<"H", "e", "l", "s", "i", "n", "k", "i">>,
     <<"f", "r", "o", "m", " ", "1", "0", "0", "0", " ", "t", "o", " ", "5", "0", "0", "0">>, <<"O", "r", "d", "e", "r", "s", " ", "f", "r", "o", "m", " ", "5", "0", "0", "0", " ", "t", "o", " ", "1", "0", "0", "0", "0">>, <<"EURO", "0", " ", "EURO", "2", ",", "5", "0", "0">>}

FeeStructures ==
    {<<"EURO", "7", ".", "5", "0">>, <<"0", ".", "3", "5", "%", " ", "m", "i", "n", " ", "EURO", "2", ".", "5", "0">>, <<"F", "r", "e", "e">>, <<"EURO", "2", " ", "+", " ", "0", ".", "1", "%">>,
     <<"EURO", "5", " ", "+", " ", "0", ".", "2", "%", " ", "m", "a", "x", ".", " ", "EURO", "3", "0">>, <<"$", "5", " ", "p", "e", "r", " ", "c", "o", "n", "t", "r", "a", "c", "t">>}

\* A human-readable record with the one category name of the tiers
TierBroker(name, tiers) ==
    ObjOf(<< <<"broker_name", Str(<<"T">>)>>,
             <<"fee_categories", Arr(<<FeeCategory(name, tiers)>>)>> >>)

TierBrokers ==
    {TierBroker(n, <<FeeTier(<<"X", "e", "t", "r", "a">>, <<"EURO", "7", ".", "5", "0">>), FeeTier(<<"I", "n", "d", "e", "x", " ", "f", "u", "t", "u", "r", "e", "s">>, <<"F", "r", "e", "e">>)>>) :
        n \in CategoryNames}
    \cup {TierBroker(<<"T", "r", "a", "d", "i", "n", "g", " ", "-", " ", "E", "q", "u", "i", "t", "i", "e", "s">>, <<FeeTier(c, f)>>) :
            c \in ConditionTexts, f \in FeeStructures}

InitNormalizeTier ==
    /\ call = "convertNewFormatToOldFormat"
    /\ payload \in {Arr(<<b>>) : b \in TierBrokers}
    /\ fee = Undefined
    /\ amount = Undefined
    /\ clock = 0
    /\ pc = "call"
    /\ ret = Pending
    /\ OneCaller
    /\ Mounted

SpecNormalizeTier == InitNormalizeTier /\ [][NextConvert]_vars

\* ---- convertNewFormatToOldFormat of one broker with a list of special fees

MaxSpecialFees == 2

SpecialFeePool ==
    {SpecialFee(<<"C", "u", "r", "r", "e", "n", "c", "y", " ", "e", "x", "c", "h", "a", "n", "g", "e">>, <<"0", ".", "2", "5", "%">>, <<"p", "e", "r", " ", "t", "r", "a", "d", "e">>),
     SpecialFee(<<"T", "r", "a", "n", "s", "f", "e", "r", " ", "o", "u", "t">>, <<"EURO", "0">>, <<"a", "n", "n", "u", "a", "l">>),
     SpecialFee(<<"T", "r", "a", "n", "s", "f", "e", "r", " ", "o", "u", "t">>, <<"EURO", "7", ".", "5", "0">>, <<"p", "e", "r", " ", "t", "r", "a", "n", "s", "f", "e", "r">>),
     SpecialFee(<<"F", "O", "R", "E", "I", "G", "N", " ", "C", "U", "R", "R", "E", "N", "C", "Y", " ", "o", "r", "d", "e", "r", "s">>, <<"EURO", "5", " ", "o", "r", " ", "0", ".", "5", "%">>, <<"p", "e", "r", " ", "t", "r", "a", "d", "e">>),
     SpecialFee(<<"C", "u", "r", "r", "e", "n", "c", "y", " ", "c", "o", "n", "v", "e", "r", "s", "i", "o", "n">>, <<"EURO", "1", ".", "5", "0">>, <<"p", "e", "r", " ", "t", "r", "a", "d", "e">>),
     SpecialFee(<<"I", "n", "a", "c", "t", "i", "v", "i", "t", "y">>, <<"o", "n", " ", "r", "e", "q", "u", "e", "s", "t">>, <<"a", "n", "n", "u", "a", "l", " ", "f", "e", "e">>),
     SpecialFee(<<"D", "i", "v", "i", "d", "e", "n", "d", " ", "h", "a", "n", "d", "l", "i", "n", "g">>, <<"1", " ", "%">>, <<"p", "e", "r", " ", "p", "a", "y", "m", "e", "n", "t">>)}

\* A human-readable record with one tier and the special fees special
SpecialBroker(special) ==
    ObjOf(<< <<"broker_name", Str(<<"P">>)>>,
             <<"fee_categories", Arr(<<EquitiesCategory>>)>>,
             <<"special_fees", special>> >>)

SpecialBrokers ==
    {SpecialBroker(Absent)}
    \cup UNION {{SpecialBroker(Arr(l)) : l \in ListsOver(SpecialFeePool, n)} :
                   n \in 0..MaxSpecialFees}

InitNormalizeSpecial ==
    /\ call = "convertNewFormatToOldFormat"
    /\ payload \in {Arr(<<b>>) : b \in SpecialBrokers}
    /\ fee = Undefined
    /\ amount = Undefined
    /\ clock = 0
    /\ pc = "call"
    /\ ret = Pending
    /\ OneCaller
    /\ Mounted

SpecNormalizeSpecial == InitNormalizeSpecial /\ [][NextConvert]_vars

\* ---- flattenApiData

FlattenInputs ==
    NonArrays
    \cup BrokerLists(HumanReadableBrokers \cup LegacyBrokers \cup UnusableElements)

InitFlatten ==
    /\ call = "flattenApiData"
    /\ payload \in FlattenInputs
    /\ fee = Undefined
    /\ amount = Undefined
    /\ clock = 0
    /\ pc = "call"
    /\ ret = Pending
    /\ OneCaller
    /\ Mounted

CallFlattenApiData ==
    /\ call = "flattenApiData"
    /\ pc = "call"
    /\ ret' = flattenApiData(payload, Now)
    /\ pc' = "return"
    /\ UNCHANGED <<call, fee, amount, payload, clock, invocations, appVars>>

NextFlatten == Tick \/ CallFlattenApiData

SpecFlatten == InitFlatten /\ [][NextFlatten]_vars

----------------------------------------------------------------------------
(* Several callers.  Each invocation has its arguments, its position, its   *)
(* local constant normalized and its result; the steps of the invocations   *)
(* interleave.                                                              *)

MaxInvocations == 2

\* An invocation about to start on brokers
Invocation(brokers, start) ==
    [brokers |-> brokers, pc |-> start, normalized |-> Absent, ret |-> Pending]

\* The other variables while the invocations run
ManyCallers(name) ==
    /\ call = name
    /\ fee = Undefined
    /\ amount = Undefined
    /\ payload = Undefined
    /\ clock = 0
    /\ pc = "call"
    /\ ret = Pending
    /\ Mounted

\* ---- flattenApiData, step by step

InterleavedPayloads ==
    {Str(<<"b", "r", "o", "k", "e", "r", "s">>), Arr(<<RoundTripBroker>>), Arr(<<LegacyBroker>>),
     Arr(<<RichBroker, LegacyZeroBroker>>), Arr(<<RoundTripBroker, Null>>)}

\* One variable normalized for all invocations, as a binding of the module
\* is
FrameOf_Shared(i) == 1

\* The frame that holds const normalized of invocation i: its own
FrameOf(i) == i

\* if (!Array.isArray(brokers)) return [];
Guard(i) ==
    /\ invocations[i].pc = "guard"
    /\ invocations' =
          IF invocations[i].brokers.t # "array"
          THEN [invocations EXCEPT ![i].pc = "return", ![i].ret = Arr(<<>>)]
          ELSE [invocations EXCEPT ![i].pc = "normalize"]
    /\ UNCHANGED <<callVars, appVars>>

\* The invocations after invocation i computed normalized
AfterNormalize(i, normalized) ==
    IF IsThrown(normalized)
    THEN [invocations EXCEPT ![i].pc = "throw", ![i].ret = Thrown]
    ELSE [invocations EXCEPT ![FrameOf(i)].normalized = normalized,
                             ![i].pc = "flatMap"]

\* const isNew = brokers.some(isNewFormat); const normalized = ...
Normalize(i) ==
    /\ invocations[i].pc = "normalize"
    /\ invocations' = AfterNormalize(i, Normalized(invocations[i].brokers, Now))
    /\ UNCHANGED <<callVars, appVars>>

\* normalized.flatMap(...) of what the frame holds
RowsOfFrame(normalized) ==
    IF normalized.t = "array" THEN FlatMapRows(normalized) ELSE Thrown

\* The invocations after invocation i returned rows or threw
AfterFlatMap(i, rows) ==
    [invocations EXCEPT ![FrameOf(i)].normalized = Absent,
                        ![i].pc = IF IsThrown(rows) THEN "throw" ELSE "return",
                        ![i].ret = rows]

\* return normalized.flatMap(...)
FlatMap(i) ==
    /\ invocations[i].pc = "flatMap"
    /\ invocations' = AfterFlatMap(i, RowsOfFrame(invocations[FrameOf(i)].normalized))
    /\ UNCHANGED <<callVars, appVars>>

InitInterleave ==
    /\ ManyCallers("flattenApiData")
    /\ invocations \in [1..MaxInvocations -> {Invocation(b, "guard") : b \in InterleavedPayloads}]

NextInterleave ==
    \/ Tick
    \/ \E i \in 1..MaxInvocations : Guard(i)
    \/ \E i \in 1..MaxInvocations : Normalize(i)
    \/ \E i \in 1..MaxInvocations : FlatMap(i)

SpecInterleave == InitInterleave /\ [][NextInterleave]_vars

\* ---- convertNewFormatToOldFormat, called again on the same list

CallAgain(i) ==
    /\ invocations[i].pc = "call"
    /\ invocations' =
          [invocations EXCEPT
              ![i].pc = "return",
              ![i].ret = convertNewFormatToOldFormat(invocations[i].brokers.v, Now)]
    /\ UNCHANGED <<callVars, appVars>>

InitConvertAgain ==
    /\ ManyCallers("convertNewFormatToOldFormat")
    /\ invocations \in {[i \in 1..MaxInvocations |-> Invocation(b, "call")] :
                           b \in BrokerLists(HumanReadableBrokers)}

NextConvertAgain ==
    \/ Tick
    \/ \E i \in 1..MaxInvocations : CallAgain(i)

SpecConvertAgain == InitConvertAgain /\ [][NextConvertAgain]_vars

----------------------------------------------------------------------------
(* The App component and its data load.  A run of fetchComparisonTables     *)
(* that passed its guard awaits the three responses of Promise.all; the     *)
(* functions a handler calls are those of the render that made the handler. *)

MaxRuns == 2

\* The state the functions of the first render captured; the effects with
\* the dependency list [] keep these functions
FirstRender == InitialState

\* processedData of a cost comparison response
ProcessedData == ObjOf(<< <<"etfs", Arr(<<>>)>>, <<"stocks", Arr(<<>>)>>, <<"bonds", Arr(<<>>)>> >>)

\* What makeApiRequest(...).catch(() => null) resolves to: null after a
\* failed request, the parsed body if not
CostResponses == {Null, ObjOf(<< <<"euronext_brussels", ObjOf(<<>>)>> >>), Str(<<"o", "k">>)}

AnalysisResponses == {Null, ObjOf(<< <<"analysis", Str(<<>>)>> >>)}

NewsResponses == {Null, ObjOf(<< <<"news_items", Arr(<<>>)>> >>)}

\* fetchComparisonTables past its guard, up to the await: the state it sets
Requested(s, closure, isManual) ==
    [s EXCEPT !.isPendingRequest = TRUE,
              !.isLoading = IF ~isManual /\ ~Truthy(closure.comparisonTables) THEN TRUE ELSE @,
              !.isRefreshing = IF isManual THEN TRUE ELSE @,
              !.isAnalysisPreparing = TRUE,
              !.error = Null]

\* if (force) { localStorage.removeItem(...) three times }
Cleared(store, force) ==
    IF force THEN store \ {"storageKey", "ANALYSIS_CACHE_KEY", "NEWS_CACHE_KEY"}
    ELSE store

\* A call of fetchComparisonTables(isManual, force) of the render closure by
\* from.  before is the state at the call, afterGuard the state the caller
\* leaves if the call returns at the guard.
FetchComparisonTables(from, closure, isManual, force, before, afterGuard) ==
    /\ lastCall' = [from |-> from, pending |-> inFlight > 0,
                    issued |-> ~closure.isPendingRequest]
    /\ IF closure.isPendingRequest
       THEN /\ state' = afterGuard
            /\ UNCHANGED <<inFlight, localStorage>>
       ELSE /\ inFlight < MaxRuns
            /\ state' = Requested(before, closure, isManual)
            /\ inFlight' = inFlight + 1
            /\ localStorage' = Cleared(localStorage, force)

\* useEffect(() => { initializeApp() }, []): fetchComparisonTables(false)
InitialLoad ==
    /\ lastCall = NoCall
    /\ FetchComparisonTables("effect", FirstRender, FALSE, FALSE, state, state)
    /\ UNCHANGED <<rendered, callVars, invocations>>

\* handleKeyDown on F5, Ctrl+R or Cmd+R: fetchComparisonTables(true, true) of
\* the render that registered the handler
KeyDown ==
    /\ lastCall # NoCall
    /\ FetchComparisonTables("keydown", FirstRender, TRUE, TRUE, state, state)
    /\ UNCHANGED <<rendered, callVars, invocations>>

\* refreshData up to its call: setIsPendingRequest(true), setIsRefreshing(true),
\* setError(null)
RefreshStarted(s) ==
    [s EXCEPT !.isPendingRequest = TRUE, !.isRefreshing = TRUE, !.error = Null]

\* Its finally block
RefreshSettled(s) ==
    [s EXCEPT !.isRefreshing = FALSE, !.isPendingRequest = FALSE]

\* refreshData of the latest render: await fetchComparisonTables(true, true);
\* if the call returns at the guard, the finally block runs at once
RefreshData ==
    /\ lastCall # NoCall
    /\ FetchComparisonTables("refreshData", rendered, TRUE, TRUE,
                             RefreshStarted(state),
                             RefreshSettled(RefreshStarted(state)))
    /\ UNCHANGED <<rendered, callVars, invocations>>

\* A render after a change of state: its functions capture the state
Render ==
    /\ rendered # state
    /\ rendered' = state
    /\ UNCHANGED <<state, inFlight, lastCall, localStorage, callVars, invocations>>

\* The try block after the responses arrived
Received(s, cost, analysis, news, now) ==
    [s EXCEPT !.comparisonTables = IF Truthy(cost) THEN ProcessedData ELSE @,
              !.lastUpdated = IF Truthy(cost) THEN now ELSE @,
              !.financialAnalysis = IF Truthy(analysis) THEN analysis ELSE @,
              !.newsData = IF Truthy(news) THEN news ELSE @]

\* localStorage.setItem of the responses that arrived
Stored(store, cost, analysis, news) ==
    store \cup (IF Truthy(cost) THEN {"storageKey"} ELSE {})
          \cup (IF Truthy(analysis) THEN {"ANALYSIS_CACHE_KEY"} ELSE {})
          \cup (IF Truthy(news) THEN {"NEWS_CACHE_KEY"} ELSE {})

\* catch (err): setError(message); setComparisonTables(null)
Caught(s) ==
    [s EXCEPT !.error = Str(<<"T", "y", "p", "e", "E", "r", "r", "o", "r">>), !.comparisonTables = Null]

\* finally
Settled(s) ==
    [s EXCEPT !.isLoading = FALSE, !.isRefreshing = FALSE,
              !.isPendingRequest = FALSE, !.isAnalysisPreparing = FALSE]

\* 'euronext_brussels' in costComparisonResponse throws on a primitive
InThrows(cost) == Truthy(cost) /\ ~TypeofObject(cost)

\* The responses of one run arrive: the rest of fetchComparisonTables (and
\* of refreshData, whose finally block sets what Settled has set)
Resolve(cost, analysis, news) ==
    /\ inFlight > 0
    /\ inFlight' = inFlight - 1
    /\ state' = Settled(IF InThrows(cost) THEN Caught(state)
                        ELSE Received(state, cost, analysis, news, Now))
    /\ localStorage' = IF InThrows(cost) THEN localStorage
                       ELSE Stored(localStorage, cost, analysis, news)
    /\ UNCHANGED <<rendered, lastCall, callVars, invocations>>

InitApp ==
    /\ call = "App"
    /\ fee = Undefined
    /\ amount = Undefined
    /\ payload = Undefined
    /\ clock = 0
    /\ pc = "mounted"
    /\ ret = Pending
    /\ OneCaller
    /\ Mounted

NextApp ==
    \/ InitialLoad
    \/ KeyDown
    \/ RefreshData
    \/ Render
    \/ \E cost \in CostResponses, analysis \in AnalysisResponses, news \in NewsResponses :
          Resolve(cost, analysis, news)

SpecApp == InitApp /\ [][NextApp]_vars

----------------------------------------------------------------------------
(* Claims about calcLinearOrTieredFee, under SpecEval.  The exact value of  *)
(* a fee is computed here in integers, in units of 1/100000: a number of n  *)
(* thousandths is 100 * n units, a cent is 1000 units, and every amount of  *)
(* Amounts is a whole number of currency units.                             *)

Returned == pc = "return"

IsNumber(x) == x.t = "number"

NumberOrZero(x) == IF IsNumber(x) THEN x.v ELSE 0

FeeFormula == Get(fee, "formula_structured")

\* base or percent carries a number
HasBaseOrPercent ==
    /\ FeeFormula.t = "object"
    /\ IsNumber(Get(FeeFormula, "base")) \/ IsNumber(Get(FeeFormula, "percent"))

\* base + percent / 100 * amount
ExactRaw ==
    100 * NumberOrZero(Get(FeeFormula, "base"))
    + NumberOrZero(Get(FeeFormula, "percent")) * (amount.v \div 1000)

\* raised to min if min is present, then lowered to max if max is present
ExactClamped ==
    LET min == Get(FeeFormula, "min")
        max == Get(FeeFormula, "max")
        afterMin == IF IsNumber(min) /\ 100 * min.v > ExactRaw
                    THEN 100 * min.v ELSE ExactRaw
    IN  IF IsNumber(max) /\ 100 * max.v < afterMin THEN 100 * max.v ELSE afterMin

ClampExample == Formula(Num(2000), Num(1000), Num(5000), Num(50000))

\* C1: with a number in base or percent, the result is a whole number of
\* cents nearest to the exact value of base + percent/100 * amount (an absent
\* base or percent counting 0), raised to min if present and then lowered to
\* max if present; base 2, percent 1, min 5, max 50 gives 5.00 at amount 100
\* and 50.00 at amount 10000.
C1_LinearClamped ==
    (Returned /\ HasBaseOrPercent) =>
        /\ IsNumber(ret)
        /\ ret.v % 10 = 0
        /\ 100 * ret.v - ExactClamped <= 500
        /\ ExactClamped - 100 * ret.v <= 500
        /\ (FeeFormula = ClampExample /\ amount = Num(100000)) => ret = Num(5000)
        /\ (FeeFormula = ClampExample /\ amount = Num(10000000)) => ret = Num(50000)

C1_Witness ==
    /\ Returned
    /\ FeeFormula = Formula(Num(2000), Num(1000), Num(5000), Num(3000))
    /\ amount = Num(10000000)
    /\ ret = Num(3000)

\* The formula leaves the choice to the tiers: there is no formula, or its
\* base and percent are both null
BaseAndPercentNull ==
    \/ IsNullish(FeeFormula)
    \/ /\ FeeFormula.t = "object"
       /\ Get(FeeFormula, "base") = Null
       /\ Get(FeeFormula, "percent") = Null

FeeTiers == IF Get(fee, "tiers").t = "array" THEN Get(fee, "tiers").v ELSE <<>>

\* from <= amount <= to, an absent bound being no bound
Contains(t, a) ==
    /\ IsNumber(Get(t, "from")) => a.v >= Get(t, "from").v
    /\ IsNumber(Get(t, "to")) => a.v <= Get(t, "to").v

BoundaryExample == Arr(<<Tier(Num(1000000), Num(5000000), Num(10000))>>)

\* C2: without a number in base and percent, a tier is selected for the
\* amount exactly when from <= amount <= to, both bounds inclusive and an
\* absent bound unbounded: no tier containing the amount gives null, a single
\* tier containing it gives its fee (null if the fee is null); the tier
\* {from 1000, to 5000, fee 10} gives 10.00 at 1000 and 5000 and null at 999
\* and 5001.
C2_TierBoundsInclusive ==
    (Returned /\ BaseAndPercentNull) =>
        /\ (\A i \in 1..Len(FeeTiers) : ~Contains(FeeTiers[i], amount)) => ret = Null
        /\ (Len(FeeTiers) = 1 /\ Contains(FeeTiers[1], amount)) =>
              /\ IsNumber(ret) <=> IsNumber(Get(FeeTiers[1], "fee"))
              /\ Get(FeeTiers[1], "fee") = Num(10000) => ret = Num(10000)
        /\ Get(fee, "tiers") = BoundaryExample =>
              /\ amount \in {Num(1000000), Num(5000000)} => ret = Num(10000)
              /\ amount \in {Num(999000), Num(5001000)} => ret = Null

C2_Witness ==
    /\ Returned
    /\ BaseAndPercentNull
    /\ Get(fee, "tiers") = BoundaryExample
    /\ amount = Num(5000000)
    /\ ret = Num(10000)

\* The first tier in list order that contains the amount
FirstContaining ==
    LET hits == {i \in 1..Len(FeeTiers) : Contains(FeeTiers[i], amount)}
    IN  IF hits = {} THEN Undefined ELSE FeeTiers[MinOf(hits)]

\* The exact value a returned number was rounded from
ExactValue ==
    IF HasBaseOrPercent THEN ExactClamped
    ELSE 100 * NumberOrZero(OptGet(FirstContaining, "fee"))

\* C8: every number returned is the exact value rounded to cents with halves
\* rounded up (2.005 gives 2.01).
C8_RoundsHalfUp ==
    (Returned /\ IsNumber(ret) /\ (HasBaseOrPercent \/ BaseAndPercentNull)) =>
        ret.v = 10 * ((ExactValue + 500) \div 1000)

\* base and percent are both absent: null, a missing field, or no formula
BaseAndPercentAbsent ==
    \/ IsNullish(FeeFormula)
    \/ /\ FeeFormula.t = "object"
       /\ IsNullish(Get(FeeFormula, "base"))
       /\ IsNullish(Get(FeeFormula, "percent"))

\* C10: with base and percent both absent the linear branch is not taken:
\* the result is that of the tier lookup, null if tiers is empty or absent.
C10_AbsentFormulaUsesTiers ==
    (Returned /\ BaseAndPercentAbsent) =>
        /\ ret = TierBranch(fee, amount)
        /\ Len(FeeTiers) = 0 => ret = Null

\* Two tiers that both contain 1000, the first with a null fee
NullFeeFirst ==
    Arr(<<Tier(Num(1000000), Num(5000000), Null), Tier(Null, Null, Num(30000))>>)

\* C11: in the tier branch the first tier in list order that contains the
\* amount is the one used: the result is a number exactly when that tier has
\* a fee, it is that fee where the fee is a whole number of cents, and it is
\* null when that tier's fee is null (whatever the later tiers are) and when
\* no tier contains the amount.
C11_FirstMatchingTierWins ==
    (Returned /\ BaseAndPercentNull) =>
        /\ FirstContaining = Undefined => ret = Null
        /\ IsNumber(ret) <=> IsNumber(OptGet(FirstContaining, "fee"))
        /\ (IsNumber(ret) /\ OptGet(FirstContaining, "fee").v % 10 = 0) =>
              ret = OptGet(FirstContaining, "fee")

C11_Witness ==
    /\ Returned
    /\ BaseAndPercentNull
    /\ Get(fee, "tiers") = NullFeeFirst
    /\ amount = Num(1000000)
    /\ ret = Null

PricingTypeIs(name) == Get(fee, "pricing_type") = Str(name)

\* C12: pricing_type selects the branch where a formula with a number in
\* base or percent and a non-empty list of tiers are both there: "tiered"
\* gives the result of the tier lookup, "linear" the clamped linear formula.
C12_PricingTypeSelectsBranch ==
    (Returned /\ HasBaseOrPercent /\ Len(FeeTiers) > 0) =>
        /\ PricingTypeIs(<<"t", "i", "e", "r", "e", "d">>) => ret = TierBranch(fee, amount)
        /\ PricingTypeIs(<<"l", "i", "n", "e", "a", "r">>) =>
              ret = roundToCents(LinearTotal(FeeFormula, amount))

\* A field of the formula is missing, null or a whole number
WholeOrMissing(field) ==
    IsNumber(Get(FeeFormula, field)) => Get(FeeFormula, field).v % 1000 = 0

\* The fee of the state takes the linear branch and its numbers are whole
WholeLinearFee ==
    /\ Returned
    /\ FeeFormula.t = "object"
    /\ TakesLinearBranch(FeeFormula)
    /\ \A f \in {"base", "percent", "min", "max"} : WholeOrMissing(f)

\* C28: for whole-numbered inputs the linear result is at most max whenever
\* max is present, also when min is greater than max; it is at least min
\* whenever min is present and max is missing or not below min; and with
\* percent not negative it does not decrease as the amount grows, so the
\* fees at 1000, 5000 and 10000 are in ascending order.
C28_LinearResultBounds ==
    WholeLinearFee =>
        /\ IsNumber(ret)
        /\ IsNumber(Get(FeeFormula, "max")) => ret.v <= Get(FeeFormula, "max").v
        /\ (/\ IsNumber(Get(FeeFormula, "min"))
            /\ IsNumber(Get(FeeFormula, "max")) =>
                  Get(FeeFormula, "max").v >= Get(FeeFormula, "min").v) =>
              ret.v >= Get(FeeFormula, "min").v
        /\ NumberOrZero(Get(FeeFormula, "percent")) >= 0 =>
              /\ \A b \in Amounts :
                    b.v >= amount.v => ret.v <= calcLinearOrTieredFee(fee, b).v
              /\ amount = EXAMPLE_AMOUNTS[1] =>
                    /\ ret.v <= calcLinearOrTieredFee(fee, EXAMPLE_AMOUNTS[2]).v
                    /\ calcLinearOrTieredFee(fee, EXAMPLE_AMOUNTS[2]).v
                          <= calcLinearOrTieredFee(fee, EXAMPLE_AMOUNTS[3]).v

\* min 5 above max 3: the result is 3
C28_Witness ==
    /\ WholeLinearFee
    /\ FeeFormula = Formula(Num(2000), Num(1000), Num(5000), Num(3000))
    /\ amount = Num(100000)
    /\ ret = Num(3000)

----------------------------------------------------------------------------
(* Claims about isNewFormat, under SpecClassify.                            *)

IsString(x) == x.t = "string"

IsArray(x) == x.t = "array"

\* C9: isNewFormat returns true exactly for a non-null object whose
\* broker_name is a string and that has an array fee_categories, an array
\* special_fees, a string custody_charges or a string summary; it returns
\* false for every other payload.
C9_NewFormatIff ==
    Returned =>
        /\ ret \in {Bool(TRUE), Bool(FALSE)}
        /\ ret = Bool(TRUE) <=>
              /\ payload.t = "object"
              /\ IsString(Get(payload, "broker_name"))
              /\ \/ IsArray(Get(payload, "fee_categories"))
                 \/ IsArray(Get(payload, "special_fees"))
                 \/ IsString(Get(payload, "custody_charges"))
                 \/ IsString(Get(payload, "summary"))

C9_Witness ==
    /\ Returned
    /\ payload = SummaryBroker
    /\ ret = Bool(TRUE)

----------------------------------------------------------------------------
(* Claims about convertNewFormatToOldFormat, under SpecConvert.             *)

\* C6: no record the normalizer returns is classified as new-format, so the
\* flattener takes the normalizer's output as it is.
C6_OutputIsNotNewFormat ==
    (Returned /\ IsArray(ret)) =>
        /\ \A i \in 1..Len(ret.v) : ~isNewFormat(ret.v[i])
        /\ Normalized(ret, Now) = ret

C6_Witness ==
    /\ Returned
    /\ IsArray(payload) /\ payload.v = <<SummaryBroker, RichBroker>>
    /\ IsArray(ret) /\ Len(ret.v) = 2

\* Whether a record has a non-empty error field
Failed(b) ==
    Get(b, "error").t = "string" /\ Get(b, "error").v # <<>>

PricingModelFields == {"custody_fee", "transaction_fees", "fx_fees", "other_fees"}

\* C16: the result has one record for each input record whose error field is
\* absent or empty, in the order of the input and with its broker_name; each
\* has a pricing_model of custody_fee, transaction_fees, fx_fees and
\* other_fees; and the record of a broker is the one the normalizer gives for
\* the list of that broker alone at the same time of day.
C16_OneRecordPerBroker ==
    Returned =>
        LET kept == SelectSeq(payload.v, LAMBDA b : ~Failed(b))
        IN  /\ IsArray(ret)
            /\ Len(ret.v) = Len(kept)
            /\ \A k \in 1..Len(kept) :
                  /\ Get(ret.v[k], "broker_name") = Get(kept[k], "broker_name")
                  /\ Get(ret.v[k], "pricing_model").t = "object"
                  /\ DOMAIN Get(ret.v[k], "pricing_model").v = PricingModelFields
                  /\ <<ret.v[k]>> =
                        convertNewFormatToOldFormat(
                            <<kept[k]>>, Get(ret.v[k], "source_last_checked")).v

C16_Witness ==
    /\ Returned
    /\ IsArray(payload) /\ payload.v = <<ErrorBroker, BlankErrorBroker>>
    /\ IsArray(ret) /\ Len(ret.v) = 1
    /\ Get(ret.v[1], "broker_name") = Str(<<"K">>)

----------------------------------------------------------------------------
(* Claims about flattenApiData, under SpecFlatten.  The brokers of the      *)
(* inputs have names of their own, so that the broker of a row tells the    *)
(* record the row comes from.                                               *)

\* The rows returned
Rows == IF Returned /\ IsArray(ret) THEN ret.v ELSE <<>>

RowsOfBroker(name) == {j \in 1..Len(Rows) : Get(Rows[j], "broker") = Str(name)}

PayloadIs(list) == IsArray(payload) /\ payload.v = list

\* C3: the list of the one record with the category "Trading - Equities"
\* and the tier "Euronext Brussels - normal charge", "1% Min. EURO 40" gives
\* exactly one row: Equities, Euronext, percentFee 1, minFee 40,
\* exampleFee1000 40.00, exampleFee10000 100.00.
C3_RoundTrip ==
    (Returned /\ PayloadIs(<<RoundTripBroker>>)) =>
        /\ IsArray(ret)
        /\ Len(ret.v) = 1
        /\ Get(ret.v[1], "instrumentType") = Str(<<"E", "q", "u", "i", "t", "i", "e", "s">>)
        /\ Get(ret.v[1], "market") = Str(<<"E", "u", "r", "o", "n", "e", "x", "t">>)
        /\ Get(ret.v[1], "percentFee") = Num(1000)
        /\ Get(ret.v[1], "minFee") = Num(40000)
        /\ Get(ret.v[1], "exampleFee1000") = Num(40000)
        /\ Get(ret.v[1], "exampleFee10000") = Num(100000)

C3_Witness ==
    /\ Returned
    /\ PayloadIs(<<RoundTripBroker>>)
    /\ Len(Rows) = 1
    /\ Get(Rows[1], "broker") = Str(<<"A">>)

HasError(b) == b.t = "object" /\ Truthy(Get(b, "error"))

\* C4: no row comes from a record with a non-empty error field, whatever its
\* other fields and the other elements of the list.
C4_ErrorBrokersGiveNoRows ==
    (Returned /\ IsArray(payload)) =>
        \A i \in 1..Len(payload.v) :
            HasError(payload.v[i]) =>
                \A j \in 1..Len(Rows) :
                    Get(Rows[j], "broker") # Get(payload.v[i], "broker_name")

\* C5: a non-array input gives the empty list, and no exception.
C5_NonArrayGivesEmptyList ==
    (Returned /\ ~IsArray(payload)) => ret = Arr(<<>>)

C5_Witness ==
    /\ Returned
    /\ payload \in {Null, Str(<<"b", "r", "o", "k", "e", "r", "s">>)}
    /\ ret = Arr(<<>>)

\* The value of the custody fee, of the FX fee, of a record in the legacy
\* shape
CustodyValue(b) == OptGet(OptGet(Get(b, "pricing_model"), "custody_fee"), "value")

FxValueOf(b) == OptGet(OptGet(Get(b, "pricing_model"), "fx_fees"), "value")

\* No element of the payload is new-format: the rows come from the records
\* as they are
LegacyPayload ==
    IsArray(payload) /\ \A i \in 1..Len(payload.v) : ~isNewFormat(payload.v[i])

\* C7: a null value is never reported as zero.  In otherFeesSummary a fee
\* with value null has its name and notes only, a fee with value 0 has
\* "0 EUR" after its name; custodyFeeValue and fxFeeValue are null in every
\* row of a broker whose custody or FX fee has value null or is missing, and 0
\* only where the value is 0.
C7_NullIsNotZero ==
    /\ \A j \in RowsOfBroker(<<"L">>) :
          /\ Get(Rows[j], "otherFeesSummary") =
                Str(<<"I", "n", "a", "c", "t", "i", "v", "i", "t", "y", " ", "(", "a", "f", "t", "e", "r", " ", "1", "2", " ", "m", "o", "n", "t", "h", "s", ")", ";", " ", "S", "t", "a", "t", "e", "m", "e", "n", "t", " ", "(", "0", " ", "E", "U", "R", "/", "y", "e", "a", "r", "l", "y", ")", ";", " ", "C", "l", "o", "s", "i", "n", "g">>)
          /\ Get(Rows[j], "custodyFeeValue") = Null
          /\ Get(Rows[j], "fxFeeValue") = Null
    /\ \A j \in RowsOfBroker(<<"Z">>) :
          /\ Get(Rows[j], "custodyFeeValue") = Num(0)
          /\ Get(Rows[j], "fxFeeValue") = Num(0)
    /\ \A j \in RowsOfBroker(<<"B">>) :
          /\ Get(Rows[j], "custodyFeeValue") = Null
          /\ Get(Rows[j], "otherFeesSummary") =
                Str(<<"C", "u", "r", "r", "e", "n", "c", "y", " ", "e", "x", "c", "h", "a", "n", "g", "e", " ", "(", "0", ".", "2", "5", " ", "E", "U", "R", "/", "o", "n", " ", "t", "r", "a", "n", "s", "a", "c", "t", "i", "o", "n", " ", "BULLET", " ", "p", "e", "r", " ", "t", "r", "a", "d", "e", ")", ";", " ", "T", "r", "a", "n", "s", "f", "e", "r", " ", "o", "u", "t", " ", "(", "a", "n", "n", "u", "a", "l", ")">>)
    /\ LegacyPayload =>
          \A i \in 1..Len(payload.v) : \A j \in 1..Len(Rows) :
              (/\ payload.v[i].t = "object"
               /\ Get(Rows[j], "broker") = Get(payload.v[i], "broker_name")) =>
                  /\ IsNullish(CustodyValue(payload.v[i]))
                        <=> Get(Rows[j], "custodyFeeValue") = Null
                  /\ IsNullish(FxValueOf(payload.v[i]))
                        <=> Get(Rows[j], "fxFeeValue") = Null

C7_Witness ==
    /\ Returned
    /\ PayloadIs(<<LegacyBroker, LegacyZeroBroker>>)
    /\ RowsOfBroker(<<"L">>) # {}
    /\ RowsOfBroker(<<"Z">>) # {}

\* The source_url of every record the normalizer returns
CanonicalUrl == Str(<<"h", "t", "t", "p", "s", ":", "/", "/", "b", "r", "o", "k", "e", "r", ".", "e", "x", "a", "m", "p", "l", "e", ".", "c", "o", "m">>)

SomeNewFormat ==
    IsArray(payload) /\ \E i \in 1..Len(payload.v) : isNewFormat(payload.v[i])

\* The number of tiers in the fee categories of a human-readable record
RECURSIVE TierCount(_)
TierCount(cats) ==
    IF cats = <<>> THEN 0
    ELSE Len(Get(Head(cats), "tiers").v) + TierCount(Tail(cats))

\* The rows a record gives once converted: one per tier of its categories if
\* it has categories and no error, none if not
ConvertedRowCount(b) ==
    IF HasError(b) \/ ~IsArray(Get(b, "fee_categories")) THEN 0
    ELSE TierCount(Get(b, "fee_categories").v)

\* The rows a record gives as it is: one per entry of its transaction_fees
GivenRowCount(b) ==
    IF IsArray(OptGet(Get(b, "pricing_model"), "transaction_fees"))
    THEN Len(OptGet(Get(b, "pricing_model"), "transaction_fees").v)
    ELSE 0

RECURSIVE SumOver(_, _)
SumOver(Count(_), list) ==
    IF list = <<>> THEN 0 ELSE Count(Head(list)) + SumOver(Count, Tail(list))

\* C13: the format is decided once for the list.  With a new-format element
\* in it the whole list goes through the normalizer: every row carries the
\* normalizer's source_url and the records give the rows of their fee
\* categories only, the legacy-shaped ones none.  With no new-format element
\* nothing is converted: each record gives the rows of its own
\* transaction_fees, with its own source_url.
C13_DispatchOncePerCall ==
    (Returned /\ IsArray(payload) /\ IsArray(ret)) =>
        /\ SomeNewFormat =>
              /\ \A j \in 1..Len(Rows) : Get(Rows[j], "sourceUrl") = CanonicalUrl
              /\ Len(Rows) = SumOver(ConvertedRowCount, payload.v)
        /\ ~SomeNewFormat =>
              /\ \A j \in 1..Len(Rows) : Get(Rows[j], "sourceUrl") # CanonicalUrl
              /\ Len(Rows) = SumOver(GivenRowCount, payload.v)
              /\ ret = FlatMapRows(payload)

C13_Witness ==
    /\ Returned
    /\ PayloadIs(<<RoundTripBroker, LegacyBroker>>)
    /\ Len(Rows) = 1
    /\ Get(Rows[1], "broker") = Str(<<"A">>)

\* The normalized brokers of the call, where normalizing does not throw
NormalizedBrokers ==
    IF IsArray(payload) /\ IsArray(Normalized(payload, Now))
    THEN Normalized(payload, Now).v ELSE <<>>

\* The transaction-fee entries of a normalized broker
FeesOfBroker(b) ==
    IF IsArray(OptGet(Get(b, "pricing_model"), "transaction_fees"))
    THEN OptGet(Get(b, "pricing_model"), "transaction_fees").v
    ELSE <<>>

\* <<b, i>> for each entry i (from 1) of each broker b (from 1), in broker
\* order and then in the order of the broker's list
RECURSIVE EntriesFrom(_, _)
EntriesFrom(brokers, b) ==
    IF b > Len(brokers) THEN <<>>
    ELSE [i \in 1..Len(FeesOfBroker(brokers[b])) |-> <<b, i>>]
         \o EntriesFrom(brokers, b + 1)

\* brokerName-instrumentType-market-index, the index counted from 0
IdOf(b, f, i) ==
    Str(StringOf(Get(b, "broker_name")) \o <<"-">>
        \o StringOf(Get(f, "instrument_type")) \o <<"-">>
        \o StringOf(Get(f, "market")) \o <<"-">> \o IntToString(i - 1))

\* C14: the rows are one per transaction-fee entry of each normalized broker,
\* in broker order and then in the order of the broker's list; the row of
\* entry i of a broker has the id brokerName-instrumentType-market-i, and
\* two rows of one broker record have different ids.
C14_OneRowPerEntryWithUniqueId ==
    (Returned /\ IsArray(payload) /\ IsArray(ret)) =>
        LET brokers == NormalizedBrokers
            entries == EntriesFrom(brokers, 1)
            ids     == [k \in 1..Len(Rows) |-> Get(Rows[k], "id")]
        IN  /\ Len(Rows) = Len(entries)
            /\ \A k \in 1..Len(Rows) :
                  /\ Get(Rows[k], "broker") =
                        Get(brokers[entries[k][1]], "broker_name")
                  /\ ids[k] =
                        IdOf(brokers[entries[k][1]],
                             FeesOfBroker(brokers[entries[k][1]])[entries[k][2]],
                             entries[k][2])
            /\ \A k, l \in 1..Len(Rows) :
                  (k # l /\ entries[k][1] = entries[l][1]) => ids[k] # ids[l]

\* Two rows of one broker with the same instrument type and market
C14_Witness ==
    /\ Returned
    /\ PayloadIs(<<LegacyZeroBroker, LegacyBroker>>)
    /\ Len(Rows) = 3
    /\ Get(Rows[2], "id") = Str(<<"L", "-", "E", "q", "u", "i", "t", "i", "e", "s", "-", "E", "u", "r", "o", "n", "e", "x", "t", "-", "0">>)
    /\ Get(Rows[3], "id") = Str(<<"L", "-", "E", "q", "u", "i", "t", "i", "e", "s", "-", "E", "u", "r", "o", "n", "e", "x", "t", "-", "1">>)

\* C15: every array gives a list and never an exception, whatever its
\* elements are; an element that is null, a primitive, or an object without
\* transaction fees gives no row, and the other elements give theirs.
C15_ArraysNeverThrow ==
    (Returned /\ IsArray(payload)) =>
        /\ IsArray(ret)
        /\ Len(Rows) = IF SomeNewFormat
                       THEN SumOver(ConvertedRowCount, payload.v)
                       ELSE SumOver(GivenRowCount, payload.v)

\* A record in the legacy shape: it has pricing_model.transaction_fees and
\* none of the new-format fields
IsLegacyShaped(b) ==
    /\ b.t = "object"
    /\ IsArray(OptGet(Get(b, "pricing_model"), "transaction_fees"))
    /\ ~isNewFormat(b)

\* The rows of the list that carry the broker name of b
RowsNamedAs(rows, b) ==
    SelectSeq(rows, LAMBDA row : Get(row, "broker") = Get(b, "broker_name"))

\* The elements of the payload in the legacy shape whose name no other
\* element has
LoneLegacyRecords ==
    {i \in 1..Len(payload.v) :
        /\ IsLegacyShaped(payload.v[i])
        /\ \A k \in 1..Len(payload.v) :
              (k # i /\ payload.v[k].t = "object") =>
                  Get(payload.v[k], "broker_name") # Get(payload.v[i], "broker_name")}

\* C26 as stated: a legacy-shaped record gives the rows it gives alone,
\* whether or not other elements of the list are new-format.
C26_LegacyRowsWhateverTheList ==
    (Returned /\ IsArray(payload) /\ IsArray(ret)) =>
        \A i \in LoneLegacyRecords :
            RowsNamedAs(Rows, payload.v[i]) =
                flattenApiData(Arr(<<payload.v[i]>>), Now).v

\* C26, amended: in a list with no new-format element a legacy-shaped record
\* gives the rows it gives alone, those of its own transaction_fees; in a
\* list with a new-format element the whole list is converted and the
\* legacy-shaped record gives no rows.
C26_LegacyRowsInLegacyLists ==
    (Returned /\ IsArray(payload) /\ IsArray(ret)) =>
        \A i \in LoneLegacyRecords :
            /\ ~SomeNewFormat =>
                  /\ RowsNamedAs(Rows, payload.v[i]) =
                        flattenApiData(Arr(<<payload.v[i]>>), Now).v
                  /\ Len(RowsNamedAs(Rows, payload.v[i])) = GivenRowCount(payload.v[i])
            /\ SomeNewFormat => RowsNamedAs(Rows, payload.v[i]) = <<>>

C26_Witness ==
    /\ Returned
    /\ PayloadIs(<<LegacyBroker, RichBroker>>)
    /\ LoneLegacyRecords = {1}
    /\ Len(flattenApiData(Arr(<<LegacyBroker>>), Now).v) = 2
    /\ RowsNamedAs(Rows, LegacyBroker) = <<>>
    /\ Len(Rows) = 2

----------------------------------------------------------------------------
(* Claims about the transaction fees of convertNewFormatToOldFormat, under  *)
(* SpecNormalizeTier: the payload is one broker with one fee category.      *)

\* Whether text has the lower-case word in it, in any letter case
Mentions(text, word) ==
    \E i \in 1..Len(text) :
        /\ i + Len(word) - 1 <= Len(text)
        /\ \A k \in 1..Len(word) : LowerChar(text[i + k - 1]) = word[k]

\* The category of the payload, its name and its tiers
TheCategory == Get(payload.v[1], "fee_categories").v[1]

CategoryName == Get(TheCategory, "category").v

CategoryTiers == Get(TheCategory, "tiers").v

\* The transaction fees of the record returned
FeesReturned ==
    IF Returned /\ IsArray(ret) /\ Len(ret.v) = 1
    THEN FeesOfBroker(ret.v[1]) ELSE <<>>

InstrumentTypes == {<<"E", "q", "u", "i", "t", "i", "e", "s">>, <<"O", "p", "t", "i", "o", "n", "s">>, <<"B", "o", "n", "d", "s">>, <<"F", "u", "n", "d", "s">>}

\* C17: the instrument type comes from the category name in any letter case:
\* Options if it has "option", or else Bonds if it has "bond", or else Funds if
\* it has "fund", or else Equities; every transaction fee has one of the four
\* types, and the fees of the tiers of a category have the same one.
C17_InstrumentTypeByPriority ==
    Returned =>
        /\ Len(FeesReturned) = Len(CategoryTiers)
        /\ \A k \in 1..Len(FeesReturned) :
              /\ Get(FeesReturned[k], "instrument_type").v \in InstrumentTypes
              /\ Get(FeesReturned[k], "instrument_type") =
                    Get(FeesReturned[1], "instrument_type")
              /\ Get(FeesReturned[k], "instrument_type").v =
                    IF Mentions(CategoryName, <<"o", "p", "t", "i", "o", "n">>) THEN <<"O", "p", "t", "i", "o", "n", "s">>
                    ELSE IF Mentions(CategoryName, <<"b", "o", "n", "d">>) THEN <<"B", "o", "n", "d", "s">>
                    ELSE IF Mentions(CategoryName, <<"f", "u", "n", "d">>) THEN <<"F", "u", "n", "d", "s">>
                    ELSE <<"E", "q", "u", "i", "t", "i", "e", "s">>

C17_Witness ==
    /\ Returned
    /\ CategoryName = <<"B", "o", "n", "d", " ", "O", "P", "T", "I", "O", "N", "S">>
    /\ Len(FeesReturned) = 2
    /\ Get(FeesReturned[2], "instrument_type") = Str(<<"O", "p", "t", "i", "o", "n", "s">>)

\* The condition text of tier k of the category
ConditionOf(k) == Get(CategoryTiers[k], "volume_or_condition").v

MarketReturned(k) == Get(FeesReturned[k], "market").v

NordicMarkets == {<<"H", "e", "l", "s", "i", "n", "k", "i">>, <<"S", "t", "o", "c", "k", "h", "o", "l", "m">>, <<"C", "o", "p", "e", "n", "h", "a", "g", "e", "n">>, <<"O", "s", "l", "o">>}

\* The rule that decides the market of a text: the Euronext venues first,
\* then the first of the later rules with a keyword in the text, Euronext if
\* there is none.  nordic tells whether the text has a keyword of the Nordic
\* rule.
RuleOf(text, nordic) ==
    IF \/ Mentions(text, <<"b", "r", "u", "s", "s", "e", "l", "s">>) \/ Mentions(text, <<"a", "m", "s", "t", "e", "r", "d", "a", "m">>)
       \/ Mentions(text, <<"p", "a", "r", "i", "s">>)
    THEN <<"E", "u", "r", "o", "n", "e", "x", "t">>
    ELSE IF Mentions(text, <<"f", "r", "a", "n", "k", "f", "u", "r", "t">>) \/ Mentions(text, <<"x", "e", "t", "r", "a">>)
    THEN <<"F", "r", "a", "n", "k", "f", "u", "r", "t">>
    ELSE IF Mentions(text, <<"l", "o", "n", "d", "o", "n">>) \/ Mentions(text, <<"l", "i", "f", "f", "e">>)
    THEN <<"L", "o", "n", "d", "o", "n">>
    ELSE IF Mentions(text, <<"z", "u", "r", "i", "c", "h">>) \/ Mentions(text, <<"s", "i", "x">>)
    THEN <<"Z", "u", "r", "i", "c", "h">>
    ELSE IF Mentions(text, <<"u", "s">>) \/ Mentions(text, <<"c", "b", "o", "e">>)
    THEN <<"U", "S", "A">>
    ELSE IF Mentions(text, <<"c", "a", "n", "a", "d", "a">>) \/ Mentions(text, <<"t", "s", "x">>)
    THEN <<"C", "a", "n", "a", "d", "a">>
    ELSE IF nordic
    THEN <<"N", "o", "r", "d", "i", "c">>
    ELSE IF Mentions(text, <<"i", "n", "d", "e", "x">>)
    THEN <<"I", "n", "d", "e", "x", " ", "O", "p", "t", "i", "o", "n", "s">>
    ELSE <<"E", "u", "r", "o", "n", "e", "x", "t">>

\* The keywords of the Nordic rule, in any letter case
NordicKeyword(text) == Mentions(text, <<"h", "e", "l", "s", "i", "n", "k", "i">>) \/ Mentions(text, <<"o", "m", "x">>)

\* The market agrees with the rule: the rule's market, one of the Nordic
\* venues for the Nordic rule
AgreesWith(market, rule) ==
    IF rule = <<"N", "o", "r", "d", "i", "c">> THEN market \in NordicMarkets ELSE market = rule

\* C18: a text with brussels, amsterdam or paris in any letter case gives
\* Euronext whatever else it has, a text with no keyword gives Euronext, and
\* for any other text the first rule with a keyword in it decides, in the
\* order Frankfurt, London, Zurich, USA, Canada, Nordic, Index Options.
C18_MarketPrecedence ==
    Returned =>
        \A k \in 1..Len(FeesReturned) :
            AgreesWith(MarketReturned(k),
                       RuleOf(ConditionOf(k), NordicKeyword(ConditionOf(k))))

\* The same with "omx" as the one keyword of the Nordic rule
MarketPrecedenceOmxOnly ==
    Returned =>
        \A k \in 1..Len(FeesReturned) :
            AgreesWith(MarketReturned(k),
                       RuleOf(ConditionOf(k), Mentions(ConditionOf(k), <<"o", "m", "x">>)))

\* The Nordic venue a text names: Helsinki, Stockholm or Copenhagen by its
\* name in any letter case, Oslo with none of the three names
NordicVenue(text) ==
    IF Mentions(text, <<"h", "e", "l", "s", "i", "n", "k", "i">>) THEN <<"H", "e", "l", "s", "i", "n", "k", "i">>
    ELSE IF Mentions(text, <<"s", "t", "o", "c", "k", "h", "o", "l", "m">>) THEN <<"S", "t", "o", "c", "k", "h", "o", "l", "m">>
    ELSE IF Mentions(text, <<"k", "o", "p", "e", "n", "h", "a", "g", "e", "n">>) THEN <<"C", "o", "p", "e", "n", "h", "a", "g", "e", "n">>
    ELSE <<"O", "s", "l", "o">>

\* C19: the keywords of the Nordic venues match in any letter case.  Where
\* the Nordic rule decides, a text that mentions Helsinki gives Helsinki, a
\* text with "omx" that mentions Stockholm or Kopenhagen gives Stockholm or
\* Copenhagen, and Oslo is given only for "omx" with none of the three names.
C19_NordicKeywordsAnyCase ==
    Returned =>
        \A k \in 1..Len(FeesReturned) :
            /\ RuleOf(ConditionOf(k), NordicKeyword(ConditionOf(k))) = <<"N", "o", "r", "d", "i", "c">>
                  => MarketReturned(k) = NordicVenue(ConditionOf(k))
            /\ MarketReturned(k) = <<"O", "s", "l", "o">>
                  => /\ Mentions(ConditionOf(k), <<"o", "m", "x">>)
                     /\ NordicVenue(ConditionOf(k)) = <<"O", "s", "l", "o">>

\* The fee structure of tier k of the category
StructureOf(k) == Get(CategoryTiers[k], "fee_structure").v

\* Condition texts with a range "from X to Y", with X and Y
RangeTexts ==
    {<<<<"f", "r", "o", "m", " ", "1", "0", "0", "0", " ", "t", "o", " ", "5", "0", "0", "0">>, 1000, 5000>>,
     <<<<"O", "r", "d", "e", "r", "s", " ", "f", "r", "o", "m", " ", "5", "0", "0", "0", " ", "t", "o", " ", "1", "0", "0", "0", "0">>, 5000, 10000>>}

\* The one tier {from: X, to: Y, fee, currency: "EUR"}
RangeTier(x, y, amt) ==
    ObjOf(<< <<"from", Num(1000 * x)>>, <<"to", Num(1000 * y)>>,
             <<"fee", amt>>, <<"currency", Str(<<"E", "U", "R">>)>> >>)

\* C20: a tier with the fee structure "EURO 7.50" and a condition text with
\* the range "from X to Y" gives a fee of pricing_type "tiered" whose tiers
\* are the one entry {from X, to Y, fee 7.50, EUR}; it evaluates to 7.50 at X
\* and at Y and to null below X and above Y.
C20_RangeGivesOneTier ==
    Returned =>
        \A k \in 1..Len(FeesReturned) : \A r \in RangeTexts :
            (ConditionOf(k) = r[1] /\ StructureOf(k) = <<"EURO", "7", ".", "5", "0">>) =>
                /\ Get(FeesReturned[k], "pricing_type") = Str(<<"t", "i", "e", "r", "e", "d">>)
                /\ Get(FeesReturned[k], "tiers") =
                      Arr(<<RangeTier(r[2], r[3], Num(7500))>>)
                /\ calcLinearOrTieredFee(FeesReturned[k], Num(1000 * r[2])) = Num(7500)
                /\ calcLinearOrTieredFee(FeesReturned[k], Num(1000 * r[3])) = Num(7500)
                /\ calcLinearOrTieredFee(FeesReturned[k], Num(1000 * (r[2] - 1))) = Null
                /\ calcLinearOrTieredFee(FeesReturned[k], Num(1000 * (r[3] + 1))) = Null

\* The formula of the fee returned for tier k
FormulaOf(k) == Get(FeesReturned[k], "formula_structured")

\* base + percent / 100 * a in thousandths, for the numbers base and percent
\* and a whole amount a
LinearValue(base, percent, a) == base.v + (percent.v * (a.v \div 1000)) \div 100

\* C21: a fee structure with both a flat EURO amount and a percentage, such
\* as "EURO 2 + 0.1%", gives a formula whose base is the flat amount and whose
\* percent is the percentage, with min and max null when the text has no min
\* or max marker; the fee evaluated at an amount a is base + percent/100 * a.
C21_LinearKeepsBothComponents ==
    Returned =>
        \A k \in 1..Len(FeesReturned) :
            (/\ parseEuroAmount(StructureOf(k)) # Null
             /\ parsePercentage(StructureOf(k)) # Null
             /\ ~Mentions(StructureOf(k), <<"m", "i", "n">>)
             /\ ~Mentions(StructureOf(k), <<"m", "a", "x">>)) =>
                /\ Get(FormulaOf(k), "base") = parseEuroAmount(StructureOf(k))
                /\ Get(FormulaOf(k), "percent") = parsePercentage(StructureOf(k))
                /\ Get(FormulaOf(k), "min") = Null
                /\ Get(FormulaOf(k), "max") = Null
                /\ \A i \in 1..Len(EXAMPLE_AMOUNTS) :
                      calcLinearOrTieredFee(FeesReturned[k], EXAMPLE_AMOUNTS[i]) =
                          Num(LinearValue(parseEuroAmount(StructureOf(k)),
                                          parsePercentage(StructureOf(k)),
                                          EXAMPLE_AMOUNTS[i]))

PricingTypeOf(k) == Get(FeesReturned[k], "pricing_type").v

TiersOf(k) == Get(FeesReturned[k], "tiers")

\* The pricing type and the tiers of every fee agree, and a tiered fee has
\* no base and no percent
PricingTypeMatchesTiers ==
    \A k \in 1..Len(FeesReturned) :
        /\ PricingTypeOf(k) \in {<<"t", "i", "e", "r", "e", "d">>, <<"l", "i", "n", "e", "a", "r">>}
        /\ PricingTypeOf(k) = <<"t", "i", "e", "r", "e", "d">> <=> IsArray(TiersOf(k))
        /\ PricingTypeOf(k) = <<"l", "i", "n", "e", "a", "r">> <=> TiersOf(k) = Null
        /\ IsArray(TiersOf(k)) => Len(TiersOf(k).v) = 1
        /\ PricingTypeOf(k) = <<"t", "i", "e", "r", "e", "d">> =>
              /\ Get(FormulaOf(k), "base") = Null
              /\ Get(FormulaOf(k), "percent") = Null

\* C27 as stated: pricing_type is "tiered" exactly when tiers is a list, then
\* of one entry, and "linear" exactly when tiers is null; a tiered fee has
\* base and percent null; calcLinearOrTieredFee takes the tier lookup for
\* every tiered fee and the linear branch for every linear fee.
C27_PricingTypeNamesBranch ==
    Returned =>
        /\ PricingTypeMatchesTiers
        /\ \A k \in 1..Len(FeesReturned) :
              /\ PricingTypeOf(k) = <<"t", "i", "e", "r", "e", "d">> => ~TakesLinearBranch(FormulaOf(k))
              /\ PricingTypeOf(k) = <<"l", "i", "n", "e", "a", "r">> => TakesLinearBranch(FormulaOf(k))

\* C27, amended: as above for the tiered fees; a linear fee takes the linear
\* branch if the text gave a base or a percent, and if it gave neither the
\* linear branch is skipped and, tiers being null, the result is null at
\* every amount.
C27_PricingTypeNeverCrossed ==
    Returned =>
        /\ PricingTypeMatchesTiers
        /\ \A k \in 1..Len(FeesReturned) :
              /\ PricingTypeOf(k) = <<"t", "i", "e", "r", "e", "d">> =>
                    /\ ~TakesLinearBranch(FormulaOf(k))
                    /\ \A i \in 1..Len(EXAMPLE_AMOUNTS) :
                          calcLinearOrTieredFee(FeesReturned[k], EXAMPLE_AMOUNTS[i]) =
                              TierBranch(FeesReturned[k], EXAMPLE_AMOUNTS[i])
              /\ PricingTypeOf(k) = <<"l", "i", "n", "e", "a", "r">> =>
                    /\ TakesLinearBranch(FormulaOf(k)) <=>
                          \/ IsNumber(Get(FormulaOf(k), "base"))
                          \/ IsNumber(Get(FormulaOf(k), "percent"))
                    /\ ~TakesLinearBranch(FormulaOf(k)) =>
                          \A i \in 1..Len(EXAMPLE_AMOUNTS) :
                              calcLinearOrTieredFee(FeesReturned[k], EXAMPLE_AMOUNTS[i]) = Null

C27_Witness ==
    /\ Returned
    /\ Len(FeesReturned) = 1
    /\ StructureOf(1) = <<"EURO", "7", ".", "5", "0">>
    /\ ConditionOf(1) = <<"EURO", "0", " ", "EURO", "2", ",", "5", "0", "0">>
    /\ PricingTypeOf(1) = <<"t", "i", "e", "r", "e", "d">>
    /\ Len(TiersOf(1).v) = 1
    /\ calcLinearOrTieredFee(FeesReturned[1], EXAMPLE_AMOUNTS[1]) = Num(7500)

----------------------------------------------------------------------------
(* Claims about the ancillary fees of convertNewFormatToOldFormat, under    *)
(* SpecNormalizeSpecial: the payload is one broker with its special fees.   *)

\* The special fees of the payload
SpecialFeesGiven ==
    IF IsArray(Get(payload.v[1], "special_fees"))
    THEN Get(payload.v[1], "special_fees").v ELSE <<>>

AmountOf(k) == Get(SpecialFeesGiven[k], "amount").v

\* The special fees whose description mentions "currency" in any letter case
CurrencyMentions ==
    {k \in 1..Len(SpecialFeesGiven) :
        Mentions(Get(SpecialFeesGiven[k], "description").v, <<"c", "u", "r", "r", "e", "n", "c", "y">>)}

PricingModelReturned == Get(ret.v[1], "pricing_model")

FxFeesReturned == Get(PricingModelReturned, "fx_fees")

\* C22: fx_fees is non-null only if some special fee's description mentions
\* "currency" in any letter case; if the amount of the first such fee has a
\* percentage, fx_fees.value is that percentage; a broker none of whose
\* special fees mentions currency, an empty list included, has fx_fees null,
\* and its rows have fxFeeType "" and fxFeeValue null.
C22_FxFeeOnlyFromCurrencyFee ==
    Returned =>
        LET rows == flattenApiData(payload, Now).v
        IN  /\ FxFeesReturned # Null => CurrencyMentions # {}
            /\ (/\ CurrencyMentions # {}
                /\ parsePercentage(AmountOf(MinOf(CurrencyMentions))) # Null) =>
                  Get(FxFeesReturned, "value") =
                      parsePercentage(AmountOf(MinOf(CurrencyMentions)))
            /\ CurrencyMentions = {} =>
                  /\ FxFeesReturned = Null
                  /\ \A j \in 1..Len(rows) :
                        /\ Get(rows[j], "fxFeeType") = Str(<<>>)
                        /\ Get(rows[j], "fxFeeValue") = Null

\* The other fees of the record returned: one per special fee, in order
OtherFeesReturned ==
    IF IsArray(Get(PricingModelReturned, "other_fees"))
    THEN Get(PricingModelReturned, "other_fees").v ELSE <<>>

\* C23: the value of an other fee is null only when the amount text has
\* neither a EURO amount nor a number followed by a percent sign; when the
\* text has a EURO amount the value is that amount, 0 included: "EURO 0"
\* gives 0, not null.
C23_OtherFeeNullOnlyIfUnparsed ==
    Returned =>
        /\ Len(OtherFeesReturned) = Len(SpecialFeesGiven)
        /\ \A k \in 1..Len(OtherFeesReturned) :
              /\ Get(OtherFeesReturned[k], "value") = Null =>
                    /\ parseEuroAmount(AmountOf(k)) = Null
                    /\ parsePercentage(AmountOf(k)) = Null
              /\ parseEuroAmount(AmountOf(k)) # Null =>
                    Get(OtherFeesReturned[k], "value") = parseEuroAmount(AmountOf(k))
              /\ AmountOf(k) = <<"EURO", "0">> => Get(OtherFeesReturned[k], "value") = Num(0)

TypeOf(k) == Get(OtherFeesReturned[k], "type").v

\* C29: the type and the value of an other fee agree.  With type
\* "percentage" the value is the number before the percent sign of the amount
\* text, with type "fixed" it is the EURO amount of the text or null; a text
\* with both a EURO amount and a percentage never gives type "percentage"
\* with the EURO amount as the value.
C29_OtherFeeTypeMatchesValue ==
    Returned =>
        \A k \in 1..Len(OtherFeesReturned) :
            /\ TypeOf(k) \in {<<"p", "e", "r", "c", "e", "n", "t", "a", "g", "e">>, <<"f", "i", "x", "e", "d">>}
            /\ TypeOf(k) = <<"p", "e", "r", "c", "e", "n", "t", "a", "g", "e">> =>
                  Get(OtherFeesReturned[k], "value") = parsePercentage(AmountOf(k))
            /\ TypeOf(k) = <<"f", "i", "x", "e", "d">> =>
                  Get(OtherFeesReturned[k], "value") \in {parseEuroAmount(AmountOf(k)), Null}
            /\ (/\ parseEuroAmount(AmountOf(k)) # Null
                /\ parsePercentage(AmountOf(k)) # Null
                /\ parseEuroAmount(AmountOf(k)) # parsePercentage(AmountOf(k))) =>
                  ~(/\ TypeOf(k) = <<"p", "e", "r", "c", "e", "n", "t", "a", "g", "e">>
                    /\ Get(OtherFeesReturned[k], "value") = parseEuroAmount(AmountOf(k)))

----------------------------------------------------------------------------
(* Claims about the data load of the App component, under SpecApp.          *)

\* C30: at most one run of fetchComparisonTables is in flight at any time; a
\* call made while a run is pending, from the initial-load effect, from
\* refreshData or from the key handler, returns at the guard and issues no
\* request; the call refreshData makes while no run is pending issues the
\* requests.
C30_SingleFlight ==
    /\ inFlight <= 1
    /\ lastCall.pending => ~lastCall.issued
    /\ (lastCall.from = "refreshData" /\ ~lastCall.pending) => lastCall.issued

----------------------------------------------------------------------------
(* Claims about several invocations, under SpecConvertAgain and             *)
(* SpecInterleave.                                                          *)

Done(i) == invocations[i].pc \in {"return", "throw"}

\* The record without its source_last_checked
Undated(record) ==
    [f \in DOMAIN record.v \ {"source_last_checked"} |-> record.v[f]]

\* Two results are equal in every field but source_last_checked
SameButDate(a, b) ==
    /\ a.t = b.t
    /\ IsArray(a) =>
          /\ Len(a.v) = Len(b.v)
          /\ \A k \in 1..Len(a.v) : Undated(a.v[k]) = Undated(b.v[k])

\* C24: two calls of convertNewFormatToOldFormat on equal lists, at
\* different times, return records equal in every field, and the lists are
\* left as they were.
C24_NormalizerIsPure ==
    \A i, j \in 1..MaxInvocations :
        (Done(i) /\ Done(j)) =>
            /\ invocations[i].ret = invocations[j].ret
            /\ invocations[i].brokers = invocations[j].brokers

\* The part of C24 that holds: the results differ in source_last_checked
\* only
NormalizerPureButDate ==
    \A i, j \in 1..MaxInvocations :
        (Done(i) /\ Done(j)) =>
            /\ SameButDate(invocations[i].ret, invocations[j].ret)
            /\ invocations[i].brokers = invocations[j].brokers

\* C25: interleaved in any order of their steps, each invocation of
\* flattenApiData returns the rows it returns run alone, and the normalized
\* list it held is gone when it ends.
C25_InterleavedCallsIndependent ==
    \A i \in 1..MaxInvocations :
        Done(i) =>
            /\ invocations[i].ret = flattenApiData(invocations[i].brokers, Now)
            /\ invocations[i].normalized = Absent

\* An invocation ran from start to end while the other held its normalized
\* list
C25_Witness ==
    /\ invocations[1].pc = "flatMap"
    /\ invocations[1].brokers = Arr(<<LegacyBroker>>)
    /\ invocations[2].pc = "return"
    /\ invocations[2].brokers = Arr(<<RoundTripBroker>>)
    /\ Len(invocations[2].ret.v) = 1

====
